---- MODULE Spec2Model ----
(***************************************************************************)
(* Model of the translation-and-staging layer of dnp3-python:              *)
(*   - the command translator of station_utils.py,                         *)
(*   - the outstation registry and the Select/Operate router of            *)
(*     outstation_new.py,                                                  *)
(*   - the measurement staging cache (SOEHandler) of master_utils.py and   *)
(*     of station_utils.py.                                                *)
(* Each component has its own specification over the shared variables:     *)
(*   SpecTranslate and SpecToMaster (translator), Spec, SpecLifecycle and  *)
(*   SpecStartup (registry and router), SpecDispatch (value visitor        *)
(*   dispatch), SpecCache and SpecStation (staging cache).                 *)
(***************************************************************************)
EXTENDS Integers, Sequences, FiniteSets, TLC

VARIABLES
    \* ---- command translator (pure functions applied to drawn inputs)
    t_cmd,      \* the master command handed to the translator
    t_out,      \* what the translator did with it (Pending before the call)
    \* ---- outstation registry and command router (outstation_new.py)
    apps,       \* the MyOutStationNew instances constructed so far, in order
    outstation_application_pool,  \* class attribute: outstation_id -> instance
    last,       \* the last Select/Operate call: inputs, effects, outcome
    \* ---- measurement staging cache (SOEHandler)
    now,        \* datetime.datetime.now(), in whole seconds
    gv_index_value_nested_dict,   \* self._gv_index_value_nested_dict
    gv_ts_ind_val_dict,           \* self._gv_ts_ind_val_dict
    gv_last_poll_dict,            \* self._gv_last_poll_dict (station_utils only)
    observed_at,  \* history: time of the last Process call per GroupVariation
    last_op,      \* the last call made on the SOEHandler
    threads       \* the call each thread is inside of, its position and locals

vars == <<t_cmd, t_out, apps, outstation_application_pool, last, now,
          gv_index_value_nested_dict, gv_ts_ind_val_dict, gv_last_poll_dict,
          observed_at, last_op, threads>>

translate_vars == <<t_cmd, t_out>>
router_vars == <<apps, outstation_application_pool, last>>
cache_vars == <<now, gv_index_value_nested_dict, gv_ts_ind_val_dict,
                gv_last_poll_dict, observed_at, last_op, threads>>

\* Python's None.
None == "None"

(***************************************************************************)
(* Values of the model.                                                    *)
(***************************************************************************)

\* type(master_cmd) for the five master command classes.
AnalogOutputTypes ==
    {"AnalogOutputDouble64", "AnalogOutputFloat32",
     "AnalogOutputInt32", "AnalogOutputInt16"}

MasterCmdTypes == AnalogOutputTypes \cup {"ControlRelayOutputBlock"}

\* An object that is none of the five command classes (the parser's final else).
OtherTypes == {"Analog"}

\* ControlRelayOutputBlock.rawCode is an unsigned byte.
RawCodes == 0 .. 255

\* A Python float, in tenths, and a Python int.
PyFloat(tenths) == [ty |-> "float", tenths |-> tenths]
PyInt(n) == [ty |-> "int", n |-> n]

\* int(x) of a float: truncation toward zero.
int(x) ==
    IF x.tenths >= 0 THEN PyInt(x.tenths \div 10) ELSE PyInt(-((-x.tenths) \div 10))

\* A Python bool and a Python str.
PyBool(b) == [ty |-> "bool", b |-> b]
PyStr(str) == [ty |-> "str", str |-> str]

\* type(val): bool is a type of its own, neither int nor float.
type_of(val) == val.ty

\* The single-precision value nearest to tenths/10, for a magnitude that single
\* precision does not hold exactly.
PyFloat32(tenths) == [ty |-> "float", tenths |-> tenths, single |-> TRUE]

\* Conversion of a double to a C float: halves are held exactly, other tenths
\* are rounded to the nearest single-precision value.
float32(x) == IF x.tenths % 5 = 0 THEN x ELSE PyFloat32(x.tenths)

\* Conversion of a C integer or float to a double: the same magnitude.
double(x) == IF x.ty = "int" THEN PyFloat(10 * x.n) ELSE x

\* Payloads of the analog output commands: the integer kinds hold integers,
\* the floating-point kinds hold floats.
IntValues == {PyInt(-1), PyInt(0), PyInt(7)}
FloatValues == {PyFloat(-10), PyFloat(35), PyFloat32(31)}
AnalogValues == IntValues \cup FloatValues

\* A raised exception: the class and which raise statement produced it.
Raise(exc, what) == [tag |-> "raise", exc |-> exc, what |-> what]

\* A returned value.
Return(val) == [tag |-> "return", val |-> val]

(***************************************************************************)
(* Command translator (station_utils.py).                                  *)
(***************************************************************************)

\* Mutant: an unrecognised rawCode is taken as "off" instead of raising.
master_to_outstation_command_parser_default_off(master_cmd) ==
    IF master_cmd.type \in AnalogOutputTypes
    THEN Return([type |-> "AnalogOutputStatus", value |-> double(master_cmd.value)])
    ELSE IF master_cmd.type = "ControlRelayOutputBlock"
    THEN Return([type |-> "BinaryOutputStatus", value |-> (master_cmd.rawCode = 3)])
    ELSE Raise("ValueError", "not a valid command")

\* Mutant: the 16-bit analog output is not among the accepted classes.
master_to_outstation_command_parser_no_int16(master_cmd) ==
    IF master_cmd.type \in AnalogOutputTypes \ {"AnalogOutputInt16"}
    THEN Return([type |-> "AnalogOutputStatus", value |-> double(master_cmd.value)])
    ELSE IF master_cmd.type = "ControlRelayOutputBlock"
    THEN IF master_cmd.rawCode = 3
         THEN Return([type |-> "BinaryOutputStatus", value |-> TRUE])
         ELSE IF master_cmd.rawCode = 4
         THEN Return([type |-> "BinaryOutputStatus", value |-> FALSE])
         ELSE Raise("ValueError", "not a valid rawCode")
    ELSE Raise("ValueError", "not a valid command")

\* to_outstation_status: AnalogOutput* -> AnalogOutputStatus(value=
\* master_cmd.value), the command's value as the status' double;
\* ControlRelayOutputBlock -> BinaryOutputStatus from the rawCode.
master_to_outstation_command_parser(master_cmd) ==
    IF master_cmd.type \in AnalogOutputTypes
    THEN Return([type |-> "AnalogOutputStatus", value |-> double(master_cmd.value)])
    ELSE IF master_cmd.type = "ControlRelayOutputBlock"
    THEN IF master_cmd.rawCode = 3
         THEN Return([type |-> "BinaryOutputStatus", value |-> TRUE])
         ELSE IF master_cmd.rawCode = 4
         THEN Return([type |-> "BinaryOutputStatus", value |-> FALSE])
         ELSE Raise("ValueError", "not a valid rawCode")
    ELSE Raise("ValueError", "not a valid command")

\* The objects the translator can be handed.
AnalogOutputCmds ==
    [type : {"AnalogOutputInt32", "AnalogOutputInt16"}, value : IntValues]
    \cup [type : {"AnalogOutputDouble64", "AnalogOutputFloat32"}, value : FloatValues]

ControlRelayOutputBlocks ==
    [type : {"ControlRelayOutputBlock"}, rawCode : RawCodes]

OtherObjects ==
    [type : OtherTypes, value : FloatValues]

TranslatorInputs == AnalogOutputCmds \cup ControlRelayOutputBlocks \cup OtherObjects

\* The value an integer takes in a 16-bit field when it is stored without a
\* range check.
wrap16(n) == ((n + 32768) % 65536) - 32768

\* Whether a Python value is an integer the command's value field can hold
\* (every integer of the model is within 32 bits).
fits(cmd_type, val) ==
    /\ type_of(val) = "int"
    /\ cmd_type = "AnalogOutputInt16" => val.n \in -32768 .. 32767

\* master_cmd.value = val_to_set on a command of the given class, for a float
\* or an int: the outcomes the typed value field of the binding can produce.
\* The floating-point fields convert any number; an integer field takes an
\* integer it can hold, and for a float or an integer out of its range the
\* binding either refuses the assignment with its TypeError or stores the
\* value converted to the field's type.
set_value(cmd_type, val) ==
    IF cmd_type = "AnalogOutputDouble64"
    THEN {Return(double(val))}
    ELSE IF cmd_type = "AnalogOutputFloat32"
    THEN {Return(float32(double(val)))}
    ELSE IF fits(cmd_type, val)
    THEN {Return(val)}
    ELSE LET n == IF type_of(val) = "float" THEN int(val).n ELSE val.n
         IN  {Raise("TypeError", "incompatible value for the field"),
              Return(PyInt(IF cmd_type = "AnalogOutputInt16" THEN wrap16(n) ELSE n))}

\* The two raise statements of parsing_gv_to_mastercmdtype: the one taken on a
\* value of the wrong type (InvalidValueType) and the one taken on a group or
\* variation that is not handled (UnsupportedCommandType). Both raise
\* ValueError; they differ in which statement raised.
InvalidValueType == Raise("ValueError", "val_to_set of group, variation invalid")
UnsupportedCommandType == Raise("ValueError", "val_to_set of group invalid")

\* opendnp3.AnalogOutputInt32() etc. for variation 1..4 of group 40.
analog_output_class(variation) ==
    IF variation = 1 THEN "AnalogOutputInt32"
    ELSE IF variation = 2 THEN "AnalogOutputInt16"
    ELSE IF variation = 3 THEN "AnalogOutputFloat32"
    ELSE "AnalogOutputDouble64"

\* Mutant: the type check is isinstance(val_to_set, (float, int)), which a
\* bool passes as the integer 1 or 0.
analog_output_isinstance(variation, val_to_set) ==
    LET number == IF type_of(val_to_set) = "bool"
                  THEN PyInt(IF val_to_set.b THEN 1 ELSE 0)
                  ELSE val_to_set
    IN  IF type_of(number) \notin {"float", "int"}
        THEN {InvalidValueType}
        ELSE IF variation \in 1 .. 4
        THEN {IF r.tag = "return"
              THEN Return([type |-> analog_output_class(variation), value |-> r.val])
              ELSE r : r \in set_value(analog_output_class(variation), number)}
        ELSE {UnsupportedCommandType}

\* The group 40 branch: the type of the value is checked first, then the
\* variation picks the class, then master_cmd.value = val_to_set.
analog_output(variation, val_to_set) ==
    IF type_of(val_to_set) \notin {"float", "int"}
    THEN {InvalidValueType}
    ELSE IF variation \in 1 .. 4
    THEN {IF r.tag = "return"
          THEN Return([type |-> analog_output_class(variation), value |-> r.val])
          ELSE r : r \in set_value(analog_output_class(variation), val_to_set)}
    ELSE {UnsupportedCommandType}

\* Mutant: the value is not type-checked and is taken by its truthiness.
control_relay_output_block_truthy(val_to_set) ==
    IF val_to_set \in {PyBool(TRUE), PyInt(7), PyInt(-1), PyInt(40000),
                       PyFloat(35), PyFloat(31), PyFloat(-10), PyStr("x")}
    THEN {Return([type |-> "ControlRelayOutputBlock", rawCode |-> 3])}
    ELSE {Return([type |-> "ControlRelayOutputBlock", rawCode |-> 4])}

\* Mutant: true is sent as control code 1 (pulse on) instead of 3 (latch on).
control_relay_output_block_pulse(val_to_set) ==
    IF type_of(val_to_set) # "bool"
    THEN {InvalidValueType}
    ELSE IF val_to_set.b
    THEN {Return([type |-> "ControlRelayOutputBlock", rawCode |-> 1])}
    ELSE {Return([type |-> "ControlRelayOutputBlock", rawCode |-> 4])}

\* The group 10 branch: a ControlRelayOutputBlock for a bool, rawCode 3 for
\* True and 4 for False; anything that is not a bool is refused.
control_relay_output_block(val_to_set) ==
    IF type_of(val_to_set) # "bool"
    THEN {InvalidValueType}
    ELSE IF val_to_set.b
    THEN {Return([type |-> "ControlRelayOutputBlock", rawCode |-> 3])}
    ELSE {Return([type |-> "ControlRelayOutputBlock", rawCode |-> 4])}

\* to_master_command: the set of outcomes of
\* parsing_gv_to_mastercmdtype(group, variation, val_to_set).
parsing_gv_to_mastercmdtype(group, variation, val_to_set) ==
    IF group = 40
    THEN analog_output(variation, val_to_set)
    ELSE IF group = 10 /\ variation \in {1, 2}
    THEN control_relay_output_block(val_to_set)
    ELSE {UnsupportedCommandType}

\* The arguments to_master_command is called with.
Groups == {1, 10, 12, 30, 40, 41}
Variations == 0 .. 5
ValuesToSet ==
    {PyInt(0), PyInt(7), PyInt(-1), PyInt(40000),
     PyFloat(35), PyFloat(31), PyFloat(-10),
     PyBool(TRUE), PyBool(FALSE), PyStr("x")}

ToMasterInputs ==
    [group : Groups, variation : Variations, val_to_set : ValuesToSet]


(***************************************************************************)
(* Outstation registry and command router (outstation_new.py).             *)
(***************************************************************************)

\* Bound: how many MyOutStationNew instances are constructed in a run.
MaxInst == 2

\* Bound: how many Select/Operate calls are made in a run.
MaxCalls == 2

\* The (outstation_ip_str, port) arguments instances are constructed with.
Endpoints == {<<"127.0.0.1", 20000>>, <<"0.0.0.0", 20001>>}

\* The point indexes commands are addressed to.
PointIndexes == {0, 1}
OperateTypes == {"DirectOperate", "SelectBeforeOperate"}

\* dict.get(key) of a missing key: no instance.
NoneApp == 0

\* Mutant: the identifier is the address alone.
make_outstation_id_ip_only(outstation_ip_str, port) == outstation_ip_str

\* self.outstation_id = outstation_ip_str + "-" + str(port)
make_outstation_id(outstation_ip_str, port) ==
    outstation_ip_str \o "-" \o ToString(port)

OutstationIds == {make_outstation_id(ep[1], ep[2]) : ep \in Endpoints}

\* The commands the protocol engine (or a direct caller) hands to a handler.
RouterCmds ==
    {[type |-> "AnalogOutputInt32", value |-> PyInt(7)],
     [type |-> "ControlRelayOutputBlock", rawCode |-> 3],
     [type |-> "ControlRelayOutputBlock", rawCode |-> 4],
     [type |-> "ControlRelayOutputBlock", rawCode |-> 1],
     [type |-> "Analog", value |-> PyFloat(70)]}

\* Mutant: a second registration under an identifier in use is ignored.
add_outstation_app_keep_first(pool, outstation_id, outstation_app) ==
    IF outstation_id \in DOMAIN pool
    THEN pool
    ELSE [k \in DOMAIN pool \cup {outstation_id} |->
            IF k = outstation_id THEN outstation_app ELSE pool[k]]

\* Mutant: registering empties the registry of every other identifier.
add_outstation_app_alone(pool, outstation_id, outstation_app) ==
    [k \in {outstation_id} |-> outstation_app]

\* cls.outstation_application_pool[outstation_id] = outstation_app
add_outstation_app(pool, outstation_id, outstation_app) ==
    [k \in DOMAIN pool \cup {outstation_id} |->
        IF k = outstation_id THEN outstation_app ELSE pool[k]]

\* Mutant: the lookup ignores the identifier and returns the class singleton
\* outstation_application, the instance constructed last.
get_outstation_app_singleton(pool, outstation_id) ==
    IF Len(apps) = 0 THEN NoneApp ELSE Len(apps)

\* cls.outstation_application_pool.get(outstation_id)
get_outstation_app(pool, outstation_id) ==
    IF outstation_id \in DOMAIN pool THEN pool[outstation_id] ELSE NoneApp

\* The handlers that exist: handler h >= 1 is apps[h].command_handler; handler 0
\* is a MyOutstationCommandHandler on which post_init was never called.
Handlers == 0 .. Len(apps)

\* MyOutstationCommandHandler.outstation_id: the class default "" until
\* post_init stores the owner's identifier.
handler_outstation_id(h) ==
    IF h = 0 THEN "" ELSE apps[h].command_handler.outstation_id

\* post_init(outstation_id): self.outstation_id = outstation_id
post_init(outstation_id) == [outstation_id |-> outstation_id]

\* The effects a call has on the protocol engine's database (Apply), on the
\* instance's mirror (db_handler.process) and on the error log.
EffApply(app, measurement, index) ==
    [eff |-> "Apply", app |-> app, type |-> measurement.type,
     index |-> index, value |-> measurement.value]

EffMirror(app, measurement, index) ==
    [eff |-> "db_handler.process", app |-> app, type |-> measurement.type,
     index |-> index, value |-> measurement.value]

EffLogError(e) == [eff |-> "log.error", exc |-> e.exc, what |-> e.what]

NoException == [tag |-> "none"]

\* self.db_handler of an instance: the class attribute None until __init__
\* reaches its last statement, the instance's DBHandler afterwards.
db_handler(app) ==
    IF apps[app].pc = "constructed" THEN app ELSE NoneApp

\* Mutant: the mirror is updated before the engine's database.
apply_update_mirror_first(app, measurement, index) ==
    IF db_handler(app) = NoneApp
    THEN [effects |-> <<>>,
          exc |-> Raise("AttributeError", "NoneType has no process")]
    ELSE [effects |-> <<EffMirror(app, measurement, index),
                        EffApply(app, measurement, index)>>,
          exc |-> NoException]

\* apply_update: self.outstation.Apply(update), then
\* self.db_handler.process(measurement, index); on a db_handler that is still
\* None the attribute access raises after Apply was made.
apply_update(app, measurement, index) ==
    IF db_handler(app) = NoneApp
    THEN [effects |-> <<EffApply(app, measurement, index)>>,
          exc |-> Raise("AttributeError", "NoneType has no process")]
    ELSE [effects |-> <<EffApply(app, measurement, index),
                        EffMirror(app, measurement, index)>>,
          exc |-> NoException]

\* Mutant: the update is applied before the command is translated, with the
\* command's own payload.
process_point_value_apply_first(app, command_type, command, index, op_type) ==
    LET outstation_cmd == master_to_outstation_command_parser(command)
        raw == [type |-> command.type,
                value |-> IF command.type = "ControlRelayOutputBlock"
                          THEN command.rawCode ELSE command.value]
    IN  IF outstation_cmd.tag = "raise"
        THEN [effects |-> apply_update(app, raw, index).effects,
              exc |-> outstation_cmd]
        ELSE apply_update(app, outstation_cmd.val, index)

\* process_point_value: translate the master command, then reuse apply_update.
\* command_type and op_type are accepted and not used.
process_point_value(app, command_type, command, index, op_type) ==
    LET outstation_cmd == master_to_outstation_command_parser(command)
    IN  IF outstation_cmd.tag = "raise"
        THEN [effects |-> <<>>, exc |-> outstation_cmd]
        ELSE apply_update(app, outstation_cmd.val, index)

\* Mutant: a missing instance is skipped ("if outstation_app is None: return").
call_process_point_value_skip_none(outstation_app, command_type, command, index, op_type) ==
    IF outstation_app = NoneApp
    THEN [effects |-> <<>>, exc |-> NoException]
    ELSE process_point_value(outstation_app, command_type, command, index, op_type)

\* outstation_app.process_point_value(...) on what the pool returned: on None the
\* attribute access raises AttributeError (inside the handler's try block).
call_process_point_value(outstation_app, command_type, command, index, op_type) ==
    IF outstation_app = NoneApp
    THEN [effects |-> <<>>,
          exc |-> Raise("AttributeError", "NoneType has no process_point_value")]
    ELSE process_point_value(outstation_app, command_type, command, index, op_type)

\* Mutant: the handler swallows the exception and acknowledges the command.
handle_swallow(r) ==
    IF r.exc.tag = "none"
    THEN [effects |-> r.effects, outcome |-> Return("SUCCESS")]
    ELSE [effects |-> r.effects \o <<EffLogError(r.exc)>>,
          outcome |-> Return("SUCCESS")]

\* The try/except of Select and Operate: return SUCCESS after the call, or
\* _log.error(e) and raise e.
handle(r) ==
    IF r.exc.tag = "none"
    THEN [effects |-> r.effects, outcome |-> Return("SUCCESS")]
    ELSE [effects |-> r.effects \o <<EffLogError(r.exc)>>, outcome |-> r.exc]

\* MyOutstationCommandHandler.Select(command, index)
Select(pool, outstation_id, command, index) ==
    LET outstation_app == get_outstation_app(pool, outstation_id)
    IN  handle(call_process_point_value(outstation_app, "Select", command, index, None))

\* Mutant: an Operate that follows a Select is acknowledged without being
\* applied again.
Operate_skip_after_select(pool, outstation_id, command, index, op_type) ==
    LET outstation_app == get_outstation_app(pool, outstation_id)
    IN  IF op_type = "SelectBeforeOperate" /\ outstation_app # NoneApp
        THEN [effects |-> <<>>, outcome |-> Return("SUCCESS")]
        ELSE handle(call_process_point_value(outstation_app, "Operate", command,
                                             index, op_type))

\* MyOutstationCommandHandler.Operate(command, index, op_type)
Operate(pool, outstation_id, command, index, op_type) ==
    LET outstation_app == get_outstation_app(pool, outstation_id)
    IN  handle(call_process_point_value(outstation_app, "Operate", command, index, op_type))

\* One table of points, updated at (type, index).
SetPoint(table, e) ==
    [k \in DOMAIN table \cup {<<e.type, e.index>>} |->
        IF k = <<e.type, e.index>> THEN e.value ELSE table[k]]

\* self.outstation.Apply(update): the protocol engine's point database takes
\* the measurement at (type, index).
Apply(db, e) == SetPoint(db, e)

\* DBHandler.process(measurement, index): the instance's mirror takes the
\* measurement at (type, index).
DBHandler_process(mirror, e) == SetPoint(mirror, e)

\* The instances after one effect: Apply writes the engine's database of the
\* instance, db_handler.process writes its mirror, logging writes neither.
ApplyEffect(a, e) ==
    IF e.eff = "Apply"
    THEN [a EXCEPT ![e.app].db = Apply(@, e)]
    ELSE IF e.eff = "db_handler.process"
    THEN [a EXCEPT ![e.app].mirror = DBHandler_process(@, e)]
    ELSE a

RECURSIVE ApplyEffects(_, _)
ApplyEffects(a, effects) ==
    IF effects = <<>> THEN a
    ELSE ApplyEffects(ApplyEffect(a, Head(effects)), Tail(effects))

NoPoints == [k \in {} |-> 0]

\* MyOutStationNew.__init__(outstation_ip_str, port): the identifier, the
\* command handler bound to it by post_init, the registration in the pool, and
\* an empty DBHandler.
MyOutStationNew_init(outstation_ip_str, port) ==
    /\ Len(apps) < MaxInst
    /\ LET self == Len(apps) + 1
           outstation_id == make_outstation_id(outstation_ip_str, port)
       IN  /\ apps' = Append(apps,
                  [outstation_id |-> outstation_id,
                   command_handler |-> post_init(outstation_id),
                   pc |-> "constructed",
                   enabled |-> FALSE,
                   shut |-> FALSE,
                   db |-> NoPoints,
                   mirror |-> NoPoints])
           /\ outstation_application_pool' =
                  add_outstation_app(outstation_application_pool, outstation_id, self)
    /\ UNCHANGED <<last, translate_vars, cache_vars>>

\* Mutant: start() is reached on an instance whose __init__ has only made the
\* AddOutstation call.
startable_early(a) == a.pc \in {"AddOutstation", "add_outstation_app", "constructed"}

\* start() is a method of a constructed instance: the caller holds the
\* instance only once __init__ has returned.
startable(a) == a.pc = "constructed"

\* start(): self.outstation.Enable()
start(self) ==
    /\ startable(apps[self])
    /\ ~apps[self].enabled
    /\ apps' = [apps EXCEPT ![self].enabled = TRUE]
    /\ UNCHANGED <<outstation_application_pool, last, translate_vars, cache_vars>>

\* shutdown(): self.outstation.Shutdown(); self.channel.Shutdown(). The pool is
\* not touched.
shutdown(self) ==
    /\ ~apps[self].shut
    /\ apps' = [apps EXCEPT ![self].shut = TRUE]
    /\ UNCHANGED <<outstation_application_pool, last, translate_vars, cache_vars>>

Calls == IF last.op = "none" THEN 0 ELSE last.n

\* A Select callback on handler h.
SelectCall(h, command, index) ==
    /\ Calls < MaxCalls
    /\ LET r == Select(outstation_application_pool, handler_outstation_id(h),
                       command, index)
       IN  /\ apps' = ApplyEffects(apps, r.effects)
           /\ last' = [op |-> "Select", n |-> Calls + 1, handler |-> h,
                       command |-> command, index |-> index, op_type |-> None,
                       effects |-> r.effects, outcome |-> r.outcome]
    /\ UNCHANGED <<outstation_application_pool, translate_vars, cache_vars>>

\* An Operate callback on handler h.
OperateCall(h, command, index, op_type) ==
    /\ Calls < MaxCalls
    /\ LET r == Operate(outstation_application_pool, handler_outstation_id(h),
                        command, index, op_type)
       IN  /\ apps' = ApplyEffects(apps, r.effects)
           /\ last' = [op |-> "Operate", n |-> Calls + 1, handler |-> h,
                       command |-> command, index |-> index, op_type |-> op_type,
                       effects |-> r.effects, outcome |-> r.outcome]
    /\ UNCHANGED <<outstation_application_pool, translate_vars, cache_vars>>

RouterInit ==
    /\ apps = <<>>
    /\ outstation_application_pool = [k \in {} |-> NoneApp]
    /\ last = [op |-> "none"]

RouterNext ==
    \/ \E ep \in Endpoints : MyOutStationNew_init(ep[1], ep[2])
    \/ \E h \in Handlers, command \in RouterCmds, index \in PointIndexes :
           SelectCall(h, command, index)
    \/ \E h \in Handlers, command \in RouterCmds, index \in PointIndexes,
          op_type \in OperateTypes :
           OperateCall(h, command, index, op_type)

\* The variables of the other components, held still.
TranslateIdle == t_cmd = None /\ t_out = [tag |-> "idle"]
CacheIdle ==
    /\ now = 0
    /\ gv_index_value_nested_dict = <<>>
    /\ gv_ts_ind_val_dict = <<>>
    /\ gv_last_poll_dict = <<>>
    /\ observed_at = <<>>
    /\ last_op = None
    /\ threads = <<>>
RouterIdle ==
    /\ apps = <<>>
    /\ outstation_application_pool = <<>>
    /\ last = [op |-> "none"]

\* Spec: instances are constructed and their handlers are called.
Init == RouterInit /\ TranslateIdle /\ CacheIdle
Next == RouterNext
Spec == Init /\ [][Next]_vars

\* SpecLifecycle: the same, with the instances also started and shut down.
LifecycleNext ==
    \/ \E ep \in Endpoints : MyOutStationNew_init(ep[1], ep[2])
    \/ \E self \in 1 .. Len(apps) : start(self)
    \/ \E self \in 1 .. Len(apps) : shutdown(self)
    \/ \E h \in Handlers, command \in RouterCmds, index \in PointIndexes :
           SelectCall(h, command, index)
    \/ \E h \in Handlers, command \in RouterCmds, index \in PointIndexes,
          op_type \in OperateTypes :
           OperateCall(h, command, index, op_type)

SpecLifecycle == Init /\ [][LifecycleNext]_vars

(***************************************************************************)
(* Startup: __init__ statement by statement, instances under construction  *)
(* interleaved with each other, with start() and with the callbacks the    *)
(* protocol engine delivers.                                               *)
(***************************************************************************)

\* __init__ up to and including self.channel.AddOutstation(...): the
\* identifier, the handler bound to it by post_init, the outstation created
\* (disabled) on the channel. The pool is not written yet.
init_AddOutstation(outstation_ip_str, port) ==
    /\ Len(apps) < MaxInst
    /\ LET outstation_id == make_outstation_id(outstation_ip_str, port)
       IN  apps' = Append(apps,
                  [outstation_id |-> outstation_id,
                   command_handler |-> post_init(outstation_id),
                   pc |-> "AddOutstation",
                   enabled |-> FALSE,
                   shut |-> FALSE,
                   db |-> NoPoints,
                   mirror |-> NoPoints])
    /\ UNCHANGED <<outstation_application_pool, last, translate_vars, cache_vars>>

\* __init__, next statement: MyOutStationNew.add_outstation_app(...).
init_add_outstation_app(self) ==
    /\ apps[self].pc = "AddOutstation"
    /\ outstation_application_pool' =
           add_outstation_app(outstation_application_pool,
                              apps[self].outstation_id, self)
    /\ apps' = [apps EXCEPT ![self].pc = "add_outstation_app"]
    /\ UNCHANGED <<last, translate_vars, cache_vars>>

\* __init__, the remaining statements: the log filters and
\* self.db_handler = DBHandler(...); __init__ returns.
init_DBHandler(self) ==
    /\ apps[self].pc = "add_outstation_app"
    /\ apps' = [apps EXCEPT ![self].pc = "constructed"]
    /\ UNCHANGED <<outstation_application_pool, last, translate_vars, cache_vars>>

\* The protocol engine calls the command handler of an outstation only while
\* that outstation is enabled.
Delivers(h) == h \in 1 .. Len(apps) /\ apps[h].enabled /\ ~apps[h].shut

EngineSelect(h, command, index) ==
    Delivers(h) /\ SelectCall(h, command, index)

EngineOperate(h, command, index, op_type) ==
    Delivers(h) /\ OperateCall(h, command, index, op_type)

\* The commands delivered during startup: one the translator accepts and one
\* it rejects.
StartupCmds ==
    {[type |-> "ControlRelayOutputBlock", rawCode |-> 3],
     [type |-> "ControlRelayOutputBlock", rawCode |-> 1]}

StartupNext ==
    \/ \E ep \in Endpoints : init_AddOutstation(ep[1], ep[2])
    \/ \E self \in 1 .. Len(apps) : init_add_outstation_app(self)
    \/ \E self \in 1 .. Len(apps) : init_DBHandler(self)
    \/ \E self \in 1 .. Len(apps) : start(self)
    \/ \E h \in Handlers, command \in StartupCmds : EngineSelect(h, command, 0)
    \/ \E h \in Handlers, command \in StartupCmds, op_type \in OperateTypes :
           EngineOperate(h, command, 0, op_type)

SpecStartup == Init /\ [][StartupNext]_vars

\* SpecIdentity: the same, with the instances also shut down.
IdentityNext ==
    \/ StartupNext
    \/ \E self \in 1 .. Len(apps) : shutdown(self)

SpecIdentity == Init /\ [][IdentityNext]_vars

\* SpecApplyUpdate: application code holds constructed instances and calls
\* process_point_value (the inbound control path, without the handler around
\* it) and apply_update (programmatic injection) on them.

\* The measurements application code injects.
Measurements ==
    {[type |-> "AnalogOutputStatus", value |-> double(PyInt(7))],
     [type |-> "BinaryOutputStatus", value |-> PyBool(TRUE)],
     [type |-> "Analog", value |-> double(PyFloat(105))],
     [type |-> "Binary", value |-> PyBool(FALSE)]}

ProcessPointValueCall(self, command_type, command, index, op_type) ==
    /\ Calls < MaxCalls
    /\ LET r == process_point_value(self, command_type, command, index, op_type)
       IN  /\ apps' = ApplyEffects(apps, r.effects)
           /\ last' = [op |-> "process_point_value", n |-> Calls + 1, app |-> self,
                       command |-> command, index |-> index,
                       effects |-> r.effects, exc |-> r.exc]
    /\ UNCHANGED <<outstation_application_pool, translate_vars, cache_vars>>

ApplyUpdateCall(self, measurement, index) ==
    /\ Calls < MaxCalls
    /\ LET r == apply_update(self, measurement, index)
       IN  /\ apps' = ApplyEffects(apps, r.effects)
           /\ last' = [op |-> "apply_update", n |-> Calls + 1, app |-> self,
                       measurement |-> measurement, index |-> index,
                       effects |-> r.effects, exc |-> r.exc]
    /\ UNCHANGED <<outstation_application_pool, translate_vars, cache_vars>>

ApplyUpdateNext ==
    \/ \E ep \in Endpoints : MyOutStationNew_init(ep[1], ep[2])
    \/ \E self \in 1 .. Len(apps), command_type \in {"Select", "Operate"},
          command \in RouterCmds, index \in PointIndexes,
          op_type \in OperateTypes \cup {None} :
           ProcessPointValueCall(self, command_type, command, index, op_type)
    \/ \E self \in 1 .. Len(apps), measurement \in Measurements,
          index \in PointIndexes :
           ApplyUpdateCall(self, measurement, index)

SpecApplyUpdate == Init /\ [][ApplyUpdateNext]_vars

(***************************************************************************)
(* The translator applied to every object it can be handed.                *)
(***************************************************************************)

\* The translator was not called yet.
Pending == [tag |-> "pending"]

to_outstation_status ==
    /\ t_out.tag = "pending"
    /\ t_out' = master_to_outstation_command_parser(t_cmd)
    /\ UNCHANGED <<t_cmd, router_vars, cache_vars>>

TranslateInit ==
    /\ t_cmd \in TranslatorInputs
    /\ t_out = Pending
    /\ RouterIdle /\ CacheIdle

TranslateNext ==
    \/ to_outstation_status

SpecTranslate == TranslateInit /\ [][TranslateNext]_vars

(***************************************************************************)
(* to_master_command applied to every argument triple, and its result      *)
(* handed back to to_outstation_status.                                    *)
(***************************************************************************)

to_master_command ==
    /\ t_out.tag = "pending"
    /\ t_out' \in parsing_gv_to_mastercmdtype(t_cmd.group, t_cmd.variation,
                                               t_cmd.val_to_set)
    /\ UNCHANGED <<t_cmd, router_vars, cache_vars>>

\* master_to_outstation_command_parser on the command to_master_command built.
round_trip ==
    /\ t_out.tag = "return"
    /\ t_out' = [tag |-> "round_trip", master_cmd |-> t_out.val,
                 status |-> master_to_outstation_command_parser(t_out.val)]
    /\ UNCHANGED <<t_cmd, router_vars, cache_vars>>

ToMasterInit ==
    /\ t_cmd \in ToMasterInputs
    /\ t_out = Pending
    /\ RouterIdle /\ CacheIdle

ToMasterNext ==
    \/ to_master_command
    \/ round_trip

SpecToMaster == ToMasterInit /\ [][ToMasterNext]_vars


(***************************************************************************)
(* Measurement staging cache: SOEHandler of master_utils.py (its reads     *)
(* evict) and SOEHandler of station_utils.py (it keeps the last poll       *)
(* times, its reads do not evict).                                         *)
(***************************************************************************)

\* self._stale_if_longer_than_in_sec
stale_if_longer_than_in_sec == 10

\* Bound: the clock runs from 0 to MaxTime seconds.
MaxTime == 11

\* Bound: a collection holds at most MaxBatch indexed values.
MaxBatch == 1

\* The headers (info.gv) of the collections the engine delivers, each with the
\* type of collection it comes with.
GroupVariations == {"Group30Var1", "Group1Var2"}

CollectionTypeOf(gv) ==
    IF gv = "Group30Var1" THEN "ICollectionIndexedAnalog"
    ELSE "ICollectionIndexedBinary"

\* The point indexes and the values a collection can hold: two analog points
\* that read 10.5 or 20.0 (the engine holds analog values as doubles), one
\* binary point that reads TRUE.
IndexesOf(type) ==
    IF type = "ICollectionIndexedBinary" THEN {0} ELSE {0, 1}

ValuesOf(type) ==
    IF type = "ICollectionIndexedBinary" THEN {TRUE} ELSE {PyFloat(105), PyFloat(200)}

\* A collection type that is not a key of visitor_class_types.
UnknownCollectionType == "ICollectionIndexedOctetString"

\* visitor_class_types: the visitor class of each of the 8 collection types.
visitor_class_types ==
    [t \in {"ICollectionIndexedBinary", "ICollectionIndexedDoubleBitBinary",
            "ICollectionIndexedCounter", "ICollectionIndexedFrozenCounter",
            "ICollectionIndexedAnalog", "ICollectionIndexedBinaryOutputStatus",
            "ICollectionIndexedAnalogOutputStatus",
            "ICollectionIndexedTimeAndInterval"} |->
        CASE t = "ICollectionIndexedBinary" -> "VisitorIndexedBinary"
          [] t = "ICollectionIndexedDoubleBitBinary" -> "VisitorIndexedDoubleBitBinary"
          [] t = "ICollectionIndexedCounter" -> "VisitorIndexedCounter"
          [] t = "ICollectionIndexedFrozenCounter" -> "VisitorIndexedFrozenCounter"
          [] t = "ICollectionIndexedAnalog" -> "VisitorIndexedAnalog"
          [] t = "ICollectionIndexedBinaryOutputStatus" -> "VisitorIndexedBinaryOutputStatus"
          [] t = "ICollectionIndexedAnalogOutputStatus" -> "VisitorIndexedAnalogOutputStatus"
          [] t = "ICollectionIndexedTimeAndInterval" -> "VisitorIndexedTimeAndInterval"]

\* The sequences of (index, value) pairs of length at most n.
RECURSIVE ItemSeqs(_, _)
ItemSeqs(type, n) ==
    IF n = 0 THEN {<<>>}
    ELSE LET shorter == ItemSeqs(type, n - 1)
         IN  shorter \cup
             {Append(q, <<i, v>>) : q \in shorter, i \in IndexesOf(type),
                                      v \in ValuesOf(type)}

\* The collections delivered under header gv, in the order Foreach visits them.
Collections(gv) ==
    [type : {CollectionTypeOf(gv)}, items : ItemSeqs(CollectionTypeOf(gv), MaxBatch)]
    \cup {[type |-> UnknownCollectionType, items |-> <<>>]}

\* The visitors that store int(value) instead of the value.
IntVisitors == {"VisitorIndexedAnalogInt", "VisitorIndexedAnalogOutputStatusInt"}

\* values.Foreach(visitor): the visitor appends (index, value) for each item, in
\* the order of delivery, to visitor.index_and_value; an Int visitor appends
\* (index, int(value)).
Foreach(values, visitor) ==
    [k \in DOMAIN values.items |->
        IF visitor \in IntVisitors
        THEN <<values.items[k][1], int(values.items[k][2])>>
        ELSE values.items[k]]

EmptyDict == [k \in {} |-> 0]

\* dict(visitor_ind_val): a later pair with the same index wins.
RECURSIVE dict(_)
dict(pairs) ==
    IF pairs = <<>> THEN EmptyDict
    ELSE LET n == Len(pairs)
             front == dict(SubSeq(pairs, 1, n - 1))
             k == pairs[n][1]
         IN  [i \in DOMAIN front \cup {k} |-> IF i = k THEN pairs[n][2] ELSE front[i]]

\* d.update(other): the keys of other are added or overwritten.
update(d, other) ==
    [i \in DOMAIN d \cup DOMAIN other |-> IF i \in DOMAIN other THEN other[i] ELSE d[i]]

\* d[key] = value
setitem(d, key, value) ==
    [k \in DOMAIN d \cup {key} |-> IF k = key THEN value ELSE d[k]]

\* d.pop(key) for a key that is present
pop(d, key) == [k \in DOMAIN d \ {key} |-> d[k]]

\* "not d.get(key)": the key is missing or maps to an empty dict.
not_get(d, key) == key \notin DOMAIN d \/ DOMAIN d[key] = {}

\* Mutant: the staged map is replaced by the batch instead of merged.
post_process_replace(nested, ts, info_gv, visitor_ind_val, t) ==
    LET nested1 == setitem(nested, info_gv, dict(visitor_ind_val))
    IN  [nested |-> nested1,
         ts |-> setitem(ts, info_gv, [time |-> t, map |-> nested1[info_gv]])]

\* Mutant: an empty batch is ignored.
post_process_skip_empty(nested, ts, info_gv, visitor_ind_val, t) ==
    LET nested1 ==
            IF not_get(nested, info_gv)
            THEN setitem(nested, info_gv, dict(visitor_ind_val))
            ELSE setitem(nested, info_gv, update(nested[info_gv], dict(visitor_ind_val)))
    IN  IF visitor_ind_val = <<>>
        THEN [nested |-> nested, ts |-> ts]
        ELSE [nested |-> nested1,
              ts |-> setitem(ts, info_gv, [time |-> t, map |-> nested1[info_gv]])]

\* Mutant: the observe also drops the entries of the other GroupVariations
\* that have become stale.
post_process_evicting(nested, ts, info_gv, visitor_ind_val, t) ==
    LET nested1 ==
            IF not_get(nested, info_gv)
            THEN setitem(nested, info_gv, dict(visitor_ind_val))
            ELSE setitem(nested, info_gv, update(nested[info_gv], dict(visitor_ind_val)))
        ts1 == setitem(ts, info_gv, [time |-> t, map |-> nested1[info_gv]])
        keep == {g \in DOMAIN ts1 : t - ts1[g].time < stale_if_longer_than_in_sec}
    IN  [nested |-> [g \in keep |-> nested1[g]],
         ts |-> [g \in keep |-> ts1[g]]]

\* Mutant: the timestamped dict is given a map of the batch alone.
post_process_stamp_batch(nested, ts, info_gv, visitor_ind_val, t) ==
    LET nested1 ==
            IF not_get(nested, info_gv)
            THEN setitem(nested, info_gv, dict(visitor_ind_val))
            ELSE setitem(nested, info_gv, update(nested[info_gv], dict(visitor_ind_val)))
    IN  [nested |-> nested1,
         ts |-> setitem(ts, info_gv, [time |-> t, map |-> dict(visitor_ind_val)])]

\* _post_process (master_utils.py): create or merge the staged map of info_gv,
\* then store (now, that map) in the timestamped dict.
post_process(nested, ts, info_gv, visitor_ind_val, t) ==
    LET nested1 ==
            IF not_get(nested, info_gv)
            THEN setitem(nested, info_gv, dict(visitor_ind_val))
            ELSE setitem(nested, info_gv, update(nested[info_gv], dict(visitor_ind_val)))
    IN  [nested |-> nested1,
         ts |-> setitem(ts, info_gv, [time |-> t, map |-> nested1[info_gv]])]

\* Mutant: an entry is stale only when strictly older than the threshold.
is_stale_strict(last_update_time, t, stale_if_longer_than) ==
    t - last_update_time > stale_if_longer_than

\* last_update_time_from_now >= stale_if_longer_than
is_stale(last_update_time, t, stale_if_longer_than) ==
    t - last_update_time >= stale_if_longer_than

\* _update_stale_db: for every key of the timestamped dict, pop the key from
\* both dicts when its entry is stale. Popping a key that the plain dict does
\* not hold raises KeyError and ends the sweep.
RECURSIVE sweep(_, _, _, _, _)
sweep(keys, nested, ts, t, stale_if_longer_than) ==
    IF keys = {} THEN [nested |-> nested, ts |-> ts, exc |-> NoException]
    ELSE LET gv == CHOOSE k \in keys : TRUE
         IN  IF is_stale(ts[gv].time, t, stale_if_longer_than)
             THEN IF gv \in DOMAIN nested
                  THEN sweep(keys \ {gv}, pop(nested, gv), pop(ts, gv), t,
                             stale_if_longer_than)
                  ELSE [nested |-> nested, ts |-> pop(ts, gv),
                        exc |-> Raise("KeyError", gv)]
             ELSE sweep(keys \ {gv}, nested, ts, t, stale_if_longer_than)

\* Mutant: the sweep stops after the first key.
update_stale_db_first_key(nested, ts, t, stale_if_longer_than) ==
    sweep(IF DOMAIN ts = {} THEN {} ELSE {CHOOSE k \in DOMAIN ts : TRUE},
          nested, ts, t, stale_if_longer_than)

\* Mutant: the sweep pops the timestamped dict only; the plain dict keeps the
\* maps of the evicted entries.
update_stale_db_keep_plain(nested, ts, t, stale_if_longer_than) ==
    [nested |-> nested,
     ts |-> sweep(DOMAIN ts, nested, ts, t, stale_if_longer_than).ts,
     exc |-> NoException]

\* Mutant: the sweep is skipped (the accessor only returns the dict).
update_stale_db_skip(nested, ts, t, stale_if_longer_than) ==
    [nested |-> nested, ts |-> ts, exc |-> NoException]

update_stale_db(nested, ts, t, stale_if_longer_than) ==
    sweep(DOMAIN ts, nested, ts, t, stale_if_longer_than)

\* The clock advances by one second.
Tick ==
    /\ now < MaxTime
    /\ now' = now + 1
    /\ last_op' = [op |-> "Tick"]
    /\ UNCHANGED <<gv_index_value_nested_dict, gv_ts_ind_val_dict,
                   gv_last_poll_dict, observed_at, threads, translate_vars, router_vars>>

\* SOEHandler.Process(info, values) of master_utils.py: the visitor class of
\* type(values) (KeyError when there is none), Foreach, then _post_process.
\* last_op.evicted records that info_gv was observed before and had no entry
\* left when the call was made.
Process(info_gv, values) ==
    /\ IF values.type \notin DOMAIN visitor_class_types
       THEN /\ last_op' = [op |-> "Process", gv |-> info_gv, type |-> values.type,
                           items |-> values.items,
                           evicted |-> info_gv \in DOMAIN observed_at
                                       /\ info_gv \notin DOMAIN gv_ts_ind_val_dict,
                           exc |-> Raise("KeyError", values.type)]
            /\ UNCHANGED <<gv_index_value_nested_dict, gv_ts_ind_val_dict, observed_at>>
       ELSE LET visitor == visitor_class_types[values.type]
                visitor_ind_val == Foreach(values, visitor)
                r == post_process(gv_index_value_nested_dict, gv_ts_ind_val_dict,
                                  info_gv, visitor_ind_val, now)
            IN  /\ gv_index_value_nested_dict' = r.nested
                /\ gv_ts_ind_val_dict' = r.ts
                /\ observed_at' = setitem(observed_at, info_gv, now)
                /\ last_op' = [op |-> "Process", gv |-> info_gv, type |-> values.type,
                               items |-> values.items,
                               evicted |-> info_gv \in DOMAIN observed_at
                                           /\ info_gv \notin DOMAIN gv_ts_ind_val_dict,
                               exc |-> NoException]
    /\ UNCHANGED <<now, gv_last_poll_dict, threads, translate_vars, router_vars>>

\* The property gv_ts_ind_val_dict of master_utils.py: sweep, then return the
\* timestamped dict itself.
read_gv_ts_ind_val_dict ==
    /\ LET r == update_stale_db(gv_index_value_nested_dict, gv_ts_ind_val_dict,
                                now, stale_if_longer_than_in_sec)
       IN  /\ gv_index_value_nested_dict' = r.nested
           /\ gv_ts_ind_val_dict' = r.ts
           /\ last_op' = [op |-> "gv_ts_ind_val_dict", exc |-> r.exc]
    /\ UNCHANGED <<now, gv_last_poll_dict, observed_at, threads, translate_vars, router_vars>>

\* Mutant: the plain accessor sweeps as well.
read_gv_index_value_nested_dict_sweeping ==
    /\ LET r == update_stale_db(gv_index_value_nested_dict, gv_ts_ind_val_dict,
                                now, stale_if_longer_than_in_sec)
       IN  /\ gv_index_value_nested_dict' = r.nested
           /\ gv_ts_ind_val_dict' = r.ts
           /\ last_op' = [op |-> "gv_index_value_nested_dict", exc |-> r.exc]
    /\ UNCHANGED <<now, gv_last_poll_dict, observed_at, threads, translate_vars, router_vars>>

\* The property gv_index_value_nested_dict: return the plain dict itself.
read_gv_index_value_nested_dict ==
    /\ last_op' = [op |-> "gv_index_value_nested_dict", exc |-> NoException]
    /\ UNCHANGED <<now, gv_index_value_nested_dict, gv_ts_ind_val_dict,
                   gv_last_poll_dict, observed_at, threads, translate_vars, router_vars>>

\* The analog headers for which station_utils.py swaps in the Int visitor.
AnalogIntGroupVariations ==
    {"Group30Var1", "Group30Var2", "Group30Var3", "Group30Var4",
     "Group32Var1", "Group32Var2", "Group32Var3", "Group32Var4"}

AnalogOutputStatusIntGroupVariations ==
    {"Group40Var1", "Group40Var2",
     "Group42Var1", "Group42Var2", "Group42Var3", "Group42Var4"}

\* Mutant: only the analog input headers are examined, analog output status
\* keeps the visitor of its collection type.
station_visitor_analog_only(visitor_class, info_gv) ==
    IF visitor_class = "VisitorIndexedAnalog"
    THEN IF info_gv \in AnalogIntGroupVariations
         THEN "VisitorIndexedAnalogInt" ELSE visitor_class
    ELSE visitor_class

\* The visitor station_utils.py ends up with for a collection type and header.
station_visitor(visitor_class, info_gv) ==
    IF visitor_class = "VisitorIndexedAnalog"
    THEN IF info_gv \in AnalogIntGroupVariations
         THEN "VisitorIndexedAnalogInt" ELSE visitor_class
    ELSE IF visitor_class = "VisitorIndexedAnalogOutputStatus"
    THEN IF info_gv \in AnalogOutputStatusIntGroupVariations
         THEN "VisitorIndexedAnalogOutputStatusInt" ELSE visitor_class
    ELSE visitor_class

\* Mutant: the poll time of a GroupVariation is stored on its first
\* observation only.
station_post_process_first_poll(nested, ts, last_poll, info_gv, visitor_ind_val, t) ==
    LET r == post_process(nested, ts, info_gv, visitor_ind_val, t)
    IN  [nested |-> r.nested, ts |-> r.ts,
         last_poll |-> IF info_gv \in DOMAIN last_poll THEN last_poll
                       ELSE setitem(last_poll, info_gv, t)]

\* _post_process (station_utils.py): the same staging as in master_utils.py,
\* then self._gv_last_poll_dict[info_gv] = now.
station_post_process(nested, ts, last_poll, info_gv, visitor_ind_val, t) ==
    LET nested1 ==
            IF not_get(nested, info_gv)
            THEN setitem(nested, info_gv, dict(visitor_ind_val))
            ELSE setitem(nested, info_gv, update(nested[info_gv], dict(visitor_ind_val)))
    IN  [nested |-> nested1,
         ts |-> setitem(ts, info_gv, [time |-> t, map |-> nested1[info_gv]]),
         last_poll |-> setitem(last_poll, info_gv, t)]

\* Mutant: a collection of a type without a visitor class is staged as an
\* empty batch instead of raising.
StationProcess_unknown_as_empty(info_gv, values) ==
    /\ LET r == station_post_process(gv_index_value_nested_dict,
                                     gv_ts_ind_val_dict, gv_last_poll_dict,
                                     info_gv,
                                     IF values.type \in DOMAIN visitor_class_types
                                     THEN Foreach(values,
                                              station_visitor(visitor_class_types[values.type],
                                                              info_gv))
                                     ELSE <<>>,
                                     now)
       IN  /\ gv_index_value_nested_dict' = r.nested
           /\ gv_ts_ind_val_dict' = r.ts
           /\ gv_last_poll_dict' = r.last_poll
           /\ observed_at' = setitem(observed_at, info_gv, now)
           /\ last_op' = [op |-> "Process", gv |-> info_gv, type |-> values.type,
                          items |-> values.items, exc |-> NoException]
    /\ UNCHANGED <<now, threads, translate_vars, router_vars>>

\* SOEHandler.Process(info, values) of station_utils.py.
StationProcess(info_gv, values) ==
    /\ IF values.type \notin DOMAIN visitor_class_types
       THEN /\ last_op' = [op |-> "Process", gv |-> info_gv, type |-> values.type,
                           items |-> values.items,
                           exc |-> Raise("KeyError", values.type)]
            /\ UNCHANGED <<gv_index_value_nested_dict, gv_ts_ind_val_dict,
                           gv_last_poll_dict, observed_at>>
       ELSE LET visitor == station_visitor(visitor_class_types[values.type], info_gv)
                visitor_ind_val == Foreach(values, visitor)
                r == station_post_process(gv_index_value_nested_dict,
                                          gv_ts_ind_val_dict, gv_last_poll_dict,
                                          info_gv, visitor_ind_val, now)
            IN  /\ gv_index_value_nested_dict' = r.nested
                /\ gv_ts_ind_val_dict' = r.ts
                /\ gv_last_poll_dict' = r.last_poll
                /\ observed_at' = setitem(observed_at, info_gv, now)
                /\ last_op' = [op |-> "Process", gv |-> info_gv, type |-> values.type,
                               items |-> values.items, exc |-> NoException]
    /\ UNCHANGED <<now, threads, translate_vars, router_vars>>

\* The property gv_ts_ind_val_dict of station_utils.py: return the timestamped
\* dict itself; nothing is swept.
station_read_gv_ts_ind_val_dict ==
    /\ last_op' = [op |-> "gv_ts_ind_val_dict", exc |-> NoException]
    /\ UNCHANGED <<now, gv_index_value_nested_dict, gv_ts_ind_val_dict,
                   gv_last_poll_dict, observed_at, threads, translate_vars, router_vars>>

\* The property gv_last_poll_dict of station_utils.py: return the dict itself.
read_gv_last_poll_dict ==
    /\ last_op' = [op |-> "gv_last_poll_dict", exc |-> NoException]
    /\ UNCHANGED <<now, gv_index_value_nested_dict, gv_ts_ind_val_dict,
                   gv_last_poll_dict, observed_at, threads, translate_vars, router_vars>>

\* SOEHandler.__init__: empty dicts.
CacheInit ==
    /\ now = 0
    /\ gv_index_value_nested_dict = EmptyDict
    /\ gv_ts_ind_val_dict = EmptyDict
    /\ gv_last_poll_dict = EmptyDict
    /\ observed_at = EmptyDict
    /\ last_op = [op |-> "init"]
    /\ threads = <<>>

CacheNext ==
    \/ Tick
    \/ \E info_gv \in GroupVariations : \E values \in Collections(info_gv) :
           Process(info_gv, values)
    \/ read_gv_ts_ind_val_dict
    \/ read_gv_index_value_nested_dict

CacheSpecInit == CacheInit /\ TranslateIdle /\ RouterIdle
SpecCache == CacheSpecInit /\ [][CacheNext]_vars

StationNext ==
    \/ Tick
    \/ \E info_gv \in GroupVariations : \E values \in Collections(info_gv) :
           StationProcess(info_gv, values)
    \/ station_read_gv_ts_ind_val_dict
    \/ read_gv_index_value_nested_dict
    \/ read_gv_last_poll_dict

SpecStation == CacheSpecInit /\ [][StationNext]_vars

(***************************************************************************)
(* Value visitor dispatch: the first half of SOEHandler.Process, from the  *)
(* collection the engine delivers to visitor.index_and_value, for the      *)
(* handler of master_utils.py and the handler of station_utils.py.         *)
(***************************************************************************)

\* Bound: a delivered collection holds at most MaxItems indexed values.
MaxItems == 2

\* The analog input and analog output status headers outside the two lists of
\* station_utils.py.
AnalogOtherGroupVariations ==
    {"Group30Var5", "Group30Var6",
     "Group32Var5", "Group32Var6", "Group32Var7", "Group32Var8"}

AnalogOutputStatusOtherGroupVariations ==
    {"Group40Var3", "Group40Var4",
     "Group42Var5", "Group42Var6", "Group42Var7", "Group42Var8"}

\* The collection type the engine delivers under a header.
DispatchTypeOf(gv) ==
    IF gv \in AnalogIntGroupVariations \cup AnalogOtherGroupVariations
    THEN "ICollectionIndexedAnalog"
    ELSE IF gv \in AnalogOutputStatusIntGroupVariations
                   \cup AnalogOutputStatusOtherGroupVariations
    THEN "ICollectionIndexedAnalogOutputStatus"
    ELSE "ICollectionIndexedBinary"

DispatchGroupVariations ==
    AnalogIntGroupVariations \cup AnalogOtherGroupVariations
    \cup AnalogOutputStatusIntGroupVariations
    \cup AnalogOutputStatusOtherGroupVariations \cup {"Group1Var2"}

\* (info, values) pairs: a header and a collection of its type whose items are
\* in the order Foreach visits them.
DispatchInputs ==
    UNION {[gv : {gv},
            values : [type : {DispatchTypeOf(gv)},
                      items : ItemSeqs(DispatchTypeOf(gv), MaxItems)]] :
           gv \in DispatchGroupVariations}

\* master_utils.py: visitor = visitor_class_types[type(values)]();
\* values.Foreach(visitor); visitor.index_and_value.
master_visitor_ind_val(info_gv, values) ==
    Foreach(values, visitor_class_types[values.type])

\* station_utils.py: the same with the visitor replaced by the Int visitor for
\* the headers of the two lists.
station_visitor_ind_val(info_gv, values) ==
    Foreach(values, station_visitor(visitor_class_types[values.type], info_gv))

MasterDispatch ==
    /\ last_op.op = "deliver"
    /\ last_op.handler = "master_utils"
    /\ last_op' = [op |-> "dispatch", handler |-> last_op.handler,
                   gv |-> last_op.gv, values |-> last_op.values,
                   visitor_ind_val |-> master_visitor_ind_val(last_op.gv, last_op.values)]
    /\ UNCHANGED <<now, gv_index_value_nested_dict, gv_ts_ind_val_dict,
                   gv_last_poll_dict, observed_at, threads, translate_vars, router_vars>>

StationDispatch ==
    /\ last_op.op = "deliver"
    /\ last_op.handler = "station_utils"
    /\ last_op' = [op |-> "dispatch", handler |-> last_op.handler,
                   gv |-> last_op.gv, values |-> last_op.values,
                   visitor_ind_val |-> station_visitor_ind_val(last_op.gv, last_op.values)]
    /\ UNCHANGED <<now, gv_index_value_nested_dict, gv_ts_ind_val_dict,
                   gv_last_poll_dict, observed_at, threads, translate_vars, router_vars>>

DispatchInit ==
    /\ \E handler \in {"master_utils", "station_utils"}, input \in DispatchInputs :
           last_op = [op |-> "deliver", handler |-> handler,
                      gv |-> input.gv, values |-> input.values]
    /\ now = 0
    /\ gv_index_value_nested_dict = <<>>
    /\ gv_ts_ind_val_dict = <<>>
    /\ gv_last_poll_dict = <<>>
    /\ observed_at = <<>>
    /\ threads = <<>>
    /\ TranslateIdle /\ RouterIdle

DispatchNext ==
    \/ MasterDispatch
    \/ StationDispatch

SpecDispatch == DispatchInit /\ [][DispatchNext]_vars

(***************************************************************************)
(* The staging cache of master_utils.py called from several threads: the   *)
(* engine's threads are inside _post_process while application threads are *)
(* inside the property gv_ts_ind_val_dict. The code takes no lock; a       *)
(* thread can be preempted between any two dict operations.                *)
(***************************************************************************)

\* The threads that call the SOEHandler.
Threads == {"t1", "t2"}

\* The header and the batches (visitor.index_and_value) the threads observe.
ConcurrentGroupVariations == {"Group30Var1"}
ConcurrentBatches ==
    {<<>>, << <<0, PyFloat(105)>> >>, << <<1, PyFloat(200)>> >>}

\* A thread that is in no call, and a thread whose call has ended (by
\* returning, or by raising exc).
Idle == [task |-> "idle", pc |-> "idle", args |-> <<>>]
Done(call, exc) == [task |-> call.task, pc |-> "done", args |-> call.args, exc |-> exc]

Callable(th) == threads[th].pc \in {"idle", "done"}

cache_frame == <<gv_last_poll_dict, observed_at, last_op, translate_vars, router_vars>>

\* Five seconds pass.
Elapse ==
    /\ now + 5 <= MaxTime
    /\ now' = now + 5
    /\ UNCHANGED <<gv_index_value_nested_dict, gv_ts_ind_val_dict, threads, cache_frame>>

\* A thread enters _post_process(info_gv, visitor_ind_val).
call_post_process(th, info_gv, visitor_ind_val) ==
    /\ Callable(th)
    /\ threads' = [threads EXCEPT ![th] =
           [task |-> "_post_process", pc |-> "test",
            args |-> [info_gv |-> info_gv, visitor_ind_val |-> visitor_ind_val]]]
    /\ UNCHANGED <<now, gv_index_value_nested_dict, gv_ts_ind_val_dict, cache_frame>>

\* if not self._gv_index_value_nested_dict.get(info_gv):
post_process_test(th) ==
    /\ threads[th].pc = "test"
    /\ threads' = [threads EXCEPT ![th].pc =
           IF not_get(gv_index_value_nested_dict, threads[th].args.info_gv)
           THEN "create" ELSE "update"]
    /\ UNCHANGED <<now, gv_index_value_nested_dict, gv_ts_ind_val_dict, cache_frame>>

\* self._gv_index_value_nested_dict[info_gv] = dict(visitor_ind_val)
post_process_create(th) ==
    /\ threads[th].pc = "create"
    /\ gv_index_value_nested_dict' =
           setitem(gv_index_value_nested_dict, threads[th].args.info_gv,
                   dict(threads[th].args.visitor_ind_val))
    /\ threads' = [threads EXCEPT ![th].pc = "stamp"]
    /\ UNCHANGED <<now, gv_ts_ind_val_dict, cache_frame>>

\* self._gv_index_value_nested_dict[info_gv].update(dict(visitor_ind_val)): the
\* subscript raises KeyError when the key was popped since the test.
post_process_update(th) ==
    /\ threads[th].pc = "update"
    /\ LET info_gv == threads[th].args.info_gv
       IN  IF info_gv \notin DOMAIN gv_index_value_nested_dict
           THEN /\ threads' = [threads EXCEPT ![th] =
                       Done(threads[th], Raise("KeyError", info_gv))]
                /\ UNCHANGED gv_index_value_nested_dict
           ELSE /\ gv_index_value_nested_dict' =
                       setitem(gv_index_value_nested_dict, info_gv,
                               update(gv_index_value_nested_dict[info_gv],
                                      dict(threads[th].args.visitor_ind_val)))
                /\ threads' = [threads EXCEPT ![th].pc = "stamp"]
    /\ UNCHANGED <<now, gv_ts_ind_val_dict, cache_frame>>

\* self._gv_ts_ind_val_dict[info_gv] = (datetime.datetime.now(),
\*                                      self._gv_index_value_nested_dict.get(info_gv))
post_process_stamp(th) ==
    /\ threads[th].pc = "stamp"
    /\ LET info_gv == threads[th].args.info_gv
       IN  gv_ts_ind_val_dict' =
               setitem(gv_ts_ind_val_dict, info_gv,
                       [time |-> now,
                        map |-> IF info_gv \in DOMAIN gv_index_value_nested_dict
                                THEN gv_index_value_nested_dict[info_gv] ELSE None])
    /\ threads' = [threads EXCEPT ![th] = Done(threads[th], NoException)]
    /\ UNCHANGED <<now, gv_index_value_nested_dict, cache_frame>>

\* A thread reads the property gv_ts_ind_val_dict and enters _update_stale_db.
call_update_stale_db(th) ==
    /\ Callable(th)
    /\ threads' = [threads EXCEPT ![th] =
           [task |-> "_update_stale_db", pc |-> "keys", args |-> <<>>]]
    /\ UNCHANGED <<now, gv_index_value_nested_dict, gv_ts_ind_val_dict, cache_frame>>

\* The thread's position after it is through with one key of dict_keys.
next_key(th_state, dict_keys) ==
    IF dict_keys = {}
    THEN Done(th_state, NoException)
    ELSE [task |-> "_update_stale_db", pc |-> "get", args |-> <<>>,
          gv |-> CHOOSE k \in dict_keys : TRUE,
          dict_keys |-> dict_keys \ {CHOOSE k \in dict_keys : TRUE}]

\* dict_keys = list(self._gv_ts_ind_val_dict.keys())
update_stale_db_keys(th) ==
    /\ threads[th].pc = "keys"
    /\ threads' = [threads EXCEPT ![th] = next_key(@, DOMAIN gv_ts_ind_val_dict)]
    /\ UNCHANGED <<now, gv_index_value_nested_dict, gv_ts_ind_val_dict, cache_frame>>

\* last_update_time = self._gv_ts_ind_val_dict.get(gv)[0], the age, and the
\* comparison with the threshold: get() of a key popped since the keys were
\* listed returns None and the subscript raises TypeError.
update_stale_db_get(th) ==
    /\ threads[th].pc = "get"
    /\ LET gv == threads[th].gv
       IN  threads' = [threads EXCEPT ![th] =
               IF gv \notin DOMAIN gv_ts_ind_val_dict
               THEN Done(@, Raise("TypeError", gv))
               ELSE IF is_stale(gv_ts_ind_val_dict[gv].time, now,
                                stale_if_longer_than_in_sec)
               THEN [@ EXCEPT !.pc = "pop_ts"]
               ELSE next_key(@, @.dict_keys)]
    /\ UNCHANGED <<now, gv_index_value_nested_dict, gv_ts_ind_val_dict, cache_frame>>

\* self._gv_ts_ind_val_dict.pop(gv)
update_stale_db_pop_ts(th) ==
    /\ threads[th].pc = "pop_ts"
    /\ LET gv == threads[th].gv
       IN  IF gv \notin DOMAIN gv_ts_ind_val_dict
           THEN /\ threads' = [threads EXCEPT ![th] =
                       Done(threads[th], Raise("KeyError", gv))]
                /\ UNCHANGED gv_ts_ind_val_dict
           ELSE /\ gv_ts_ind_val_dict' = pop(gv_ts_ind_val_dict, gv)
                /\ threads' = [threads EXCEPT ![th].pc = "pop_nested"]
    /\ UNCHANGED <<now, gv_index_value_nested_dict, cache_frame>>

\* self._gv_index_value_nested_dict.pop(gv)
update_stale_db_pop_nested(th) ==
    /\ threads[th].pc = "pop_nested"
    /\ LET gv == threads[th].gv
       IN  IF gv \notin DOMAIN gv_index_value_nested_dict
           THEN /\ threads' = [threads EXCEPT ![th] =
                       Done(threads[th], Raise("KeyError", gv))]
                /\ UNCHANGED gv_index_value_nested_dict
           ELSE /\ gv_index_value_nested_dict' = pop(gv_index_value_nested_dict, gv)
                /\ threads' = [threads EXCEPT ![th] = next_key(@, @.dict_keys)]
    /\ UNCHANGED <<now, gv_ts_ind_val_dict, cache_frame>>

ConcurrentInit ==
    /\ now = 0
    /\ gv_index_value_nested_dict = EmptyDict
    /\ gv_ts_ind_val_dict = EmptyDict
    /\ gv_last_poll_dict = EmptyDict
    /\ observed_at = EmptyDict
    /\ last_op = [op |-> "init"]
    /\ threads = [th \in Threads |-> Idle]
    /\ TranslateIdle /\ RouterIdle

ConcurrentNext ==
    \/ Elapse
    \/ \E th \in Threads, info_gv \in ConcurrentGroupVariations,
          visitor_ind_val \in ConcurrentBatches :
           call_post_process(th, info_gv, visitor_ind_val)
    \/ \E th \in Threads : post_process_test(th)
    \/ \E th \in Threads : post_process_create(th)
    \/ \E th \in Threads : post_process_update(th)
    \/ \E th \in Threads : post_process_stamp(th)
    \/ \E th \in Threads : call_update_stale_db(th)
    \/ \E th \in Threads : update_stale_db_keys(th)
    \/ \E th \in Threads : update_stale_db_get(th)
    \/ \E th \in Threads : update_stale_db_pop_ts(th)
    \/ \E th \in Threads : update_stale_db_pop_nested(th)

SpecConcurrent == ConcurrentInit /\ [][ConcurrentNext]_vars

(***************************************************************************)
(* parsing_gvid_to_gvcls (master_utils.py and station_utils.py).           *)
(***************************************************************************)

\* f"Group{group}Var{variation}"
GroupVarName(group, variation) ==
    "Group" \o ToString(group) \o "Var" \o ToString(variation)

\* The variations opendnp3.GroupVariation has a member for, per group, for
\* the groups used here; group 99 has none.
GvidGroups == {1, 2, 4, 10, 11, 30, 32, 40, 42, 99}
GvidVariations == 0 .. 8
MemberVariations(group) ==
    CASE group \in {1, 10, 11} -> 0 .. 2
      [] group \in {2, 4} -> 0 .. 3
      [] group = 30 -> 0 .. 6
      [] group = 40 -> 0 .. 4
      [] group \in {32, 42} -> 0 .. 8
      [] OTHER -> {}

\* The names of the members of opendnp3.GroupVariation.
GroupVariationMembers ==
    UNION {{GroupVarName(g, v) : v \in MemberVariations(g)} : g \in GvidGroups}

\* The GroupVariationID values handed to the function.
GvidInputs == [group : GvidGroups, variation : GvidVariations]

\* master_utils.py: the hard-coded chain of comparisons; gv_cls is only
\* annotated before the chain, so a pair that no branch matches reaches
\* "return gv_cls" with the local unassigned.
parsing_gvid_to_gvcls(gvid) ==
    LET group == gvid.group
        variation == gvid.variation
    IN  IF group = 30 /\ variation = 6 THEN Return("Group30Var6")
        ELSE IF group = 30 /\ variation = 1 THEN Return("Group30Var1")
        ELSE IF group = 1 /\ variation = 2 THEN Return("Group1Var2")
        ELSE IF group = 40 /\ variation = 4 THEN Return("Group40Var4")
        ELSE IF group = 4 /\ variation = 1 THEN Return("Group40Var1")
        ELSE IF group = 10 /\ variation = 2 THEN Return("Group10Var2")
        ELSE IF group = 32 /\ variation = 4 THEN Return("Group32Var4")
        ELSE IF group = 2 /\ variation = 2 THEN Return("Group2Var2")
        ELSE IF group = 42 /\ variation = 8 THEN Return("Group42Var8")
        ELSE IF group = 11 /\ variation = 2 THEN Return("Group11Var2")
        ELSE Raise("UnboundLocalError", "gv_cls")

\* station_utils.py: getattr(opendnp3.GroupVariation, f"Group{group}Var{variation}");
\* getattr of a name that is no member raises AttributeError, which the
\* "except ValueError" does not catch.
station_parsing_gvid_to_gvcls(gvid) ==
    LET name == GroupVarName(gvid.group, gvid.variation)
    IN  IF name \in GroupVariationMembers
        THEN Return(name)
        ELSE Raise("AttributeError", name)

master_parsing_gvid ==
    /\ t_out.tag = "pending"
    /\ t_out' = [tag |-> "done", module |-> "master_utils",
                 result |-> parsing_gvid_to_gvcls(t_cmd)]
    /\ UNCHANGED <<t_cmd, router_vars, cache_vars>>

station_parsing_gvid ==
    /\ t_out.tag = "pending"
    /\ t_out' = [tag |-> "done", module |-> "station_utils",
                 result |-> station_parsing_gvid_to_gvcls(t_cmd)]
    /\ UNCHANGED <<t_cmd, router_vars, cache_vars>>

GvidInit ==
    /\ t_cmd \in GvidInputs
    /\ t_out = Pending
    /\ RouterIdle /\ CacheIdle

GvidNext ==
    \/ master_parsing_gvid
    \/ station_parsing_gvid

SpecGvid == GvidInit /\ [][GvidNext]_vars

(***************************************************************************)
(* Properties of the command translator (checked under SpecTranslate).     *)
(***************************************************************************)

\* C1: on a relay control block, to_outstation_status returns a
\* BinaryOutputStatus holding TRUE for raw code 3 and FALSE for raw code 4, and
\* for every other raw code raises the invalid-rawCode ValueError instead of
\* returning any status.
C1_ControlCode ==
    (t_out.tag # "pending" /\ t_cmd.type = "ControlRelayOutputBlock") =>
        /\ t_cmd.rawCode = 3 =>
               t_out = Return([type |-> "BinaryOutputStatus", value |-> TRUE])
        /\ t_cmd.rawCode = 4 =>
               t_out = Return([type |-> "BinaryOutputStatus", value |-> FALSE])
        /\ t_cmd.rawCode \notin {3, 4} =>
               t_out = Raise("ValueError", "not a valid rawCode")

\* C1 witness: a relay control block with a raw code other than 3 and 4 was
\* translated and the call raised.
C1_Witness ==
    /\ t_cmd.type = "ControlRelayOutputBlock"
    /\ t_cmd.rawCode \notin {3, 4}
    /\ t_out.tag = "raise"

(***************************************************************************)
(* Properties of the registry and the router (checked under Spec and       *)
(* SpecLifecycle).                                                         *)
(***************************************************************************)

\* The commands the translator accepts: the four analog outputs, and a relay
\* control block with raw code 3 or 4.
Translatable(command) ==
    \/ command.type \in AnalogOutputTypes
    \/ command.type = "ControlRelayOutputBlock" /\ command.rawCode \in {3, 4}

\* A Select or Operate call was made (last describes it).
Called == last.op \in {"Select", "Operate"}

\* The handler of the last call is bound to an identifier with a registry entry.
LastRegistered ==
    handler_outstation_id(last.handler) \in DOMAIN outstation_application_pool

\* C2: Select and Operate return SUCCESS only after the command was translated
\* and both Apply and the mirror update were made; a command that cannot be
\* translated is logged with log.error and then raised, never answered SUCCESS.
C2_SuccessOnlyAfterApply ==
    Called =>
        /\ last.outcome = Return("SUCCESS") =>
               /\ Translatable(last.command)
               /\ Len(last.effects) = 2
               /\ last.effects[1].eff = "Apply"
               /\ last.effects[2].eff = "db_handler.process"
        /\ ~Translatable(last.command) =>
               /\ last.outcome.tag = "raise"
               /\ last.effects # <<>>
               /\ last.effects[Len(last.effects)] = EffLogError(last.outcome)

\* C2 witness: a registered handler was given a command that cannot be
\* translated and the call ended by raising the translator's error.
C2_Witness ==
    /\ Called
    /\ LastRegistered
    /\ ~Translatable(last.command)
    /\ last.outcome.tag = "raise"
    /\ last.outcome.exc = "ValueError"

\* C3: when the translation of the command fails in process_point_value, the
\* call leaves every instance as it was: neither the engine's database nor the
\* mirror of any instance has changed when the error reaches the caller.
C3_NoMutationOnTranslationError ==
    [][(last' # last /\ ~Translatable(last'.command)) => apps' = apps]_vars

\* C3 witness: the handler of a registered instance whose database already holds
\* a point was given a command that cannot be translated, and the call raised.
C3_Witness ==
    /\ Called
    /\ LastRegistered
    /\ ~Translatable(last.command)
    /\ last.outcome.tag = "raise"
    /\ \E i \in 1 .. Len(apps) : DOMAIN apps[i].db # {}

\* The instances constructed under an identifier, in construction order.
RegisteredAs(id) == {i \in 1 .. Len(apps) : apps[i].outstation_id = id}

\* The largest member of a non-empty set of numbers.
Latest(S) == CHOOSE x \in S : \A y \in S : y <= x

\* C8: lookup(id) returns the instance most recently registered under id, and
\* misses (returns no instance) for an identifier that was never registered.
C8_RegistryLookup ==
    \A id \in OutstationIds \cup {""} :
        IF RegisteredAs(id) = {}
        THEN get_outstation_app(outstation_application_pool, id) = NoneApp
        ELSE get_outstation_app(outstation_application_pool, id) = Latest(RegisteredAs(id))

\* C8 witness: one identifier was registered and is looked up to its instance,
\* while another identifier was never registered and misses.
C8_Witness ==
    \E id1, id2 \in OutstationIds :
        /\ RegisteredAs(id1) # {}
        /\ get_outstation_app(outstation_application_pool, id1) \in RegisteredAs(id1)
        /\ RegisteredAs(id2) = {}
        /\ get_outstation_app(outstation_application_pool, id2) = NoneApp

\* C9: after the shutdown of an instance, lookup of its identifier misses, and
\* the registry holds entries only for instances that were not shut down.
C9_RemovedAtShutdown ==
    \A id \in DOMAIN outstation_application_pool :
        ~apps[outstation_application_pool[id]].shut

\* C10: a Select or Operate on a handler whose identifier has no registry entry
\* logs the error and raises it, does not return SUCCESS, and changes no
\* instance's database or mirror.
C10_LookupMissIsFatal ==
    [][(last' # last /\ handler_outstation_id(last'.handler)
                            \notin DOMAIN outstation_application_pool) =>
          /\ last'.outcome.tag = "raise"
          /\ last'.effects = <<EffLogError(last'.outcome)>>
          /\ apps' = apps]_vars

\* C10 witness: with an instance constructed, the handler that is bound to no
\* registered identifier was called and the call raised.
C10_Witness ==
    /\ Called
    /\ ~LastRegistered
    /\ Len(apps) >= 1
    /\ last.outcome.tag = "raise"
    /\ last.outcome.exc = "AttributeError"

(***************************************************************************)
(* Properties of the staging cache (checked under SpecCache for the        *)
(* handler of master_utils.py, under SpecStation for the handler of        *)
(* station_utils.py).                                                      *)
(***************************************************************************)

\* The indexes a batch of (index, value) pairs holds.
BatchIndexes(items) == {items[k][1] : k \in DOMAIN items}

\* The value of the last pair of the batch that holds index i.
BatchValue(items, i) ==
    items[Latest({k \in DOMAIN items : items[k][1] = i})][2]

\* The staged entry returned for G by a read.
Staged(G) == G \in DOMAIN gv_ts_ind_val_dict

\* C4: an observe merges and never replaces: after Process for G the staged map
\* holds every index it held before and every index of the batch; an index of
\* the batch maps to the batch's (last) value for it, and an index absent from
\* the batch keeps its earlier value.
C4_StagingMerge ==
    [][(last_op'.op = "Process" /\ last_op'.exc = NoException) =>
          LET G == last_op'.gv
              items == last_op'.items
              old == IF G \in DOMAIN gv_index_value_nested_dict
                     THEN gv_index_value_nested_dict[G] ELSE EmptyDict
              new == gv_index_value_nested_dict'[G]
          IN  /\ DOMAIN new = DOMAIN old \cup BatchIndexes(items)
              /\ \A i \in BatchIndexes(items) : new[i] = BatchValue(items, i)
              /\ \A i \in DOMAIN old \ BatchIndexes(items) : new[i] = old[i]
              /\ gv_ts_ind_val_dict'[G].map = new]_vars

\* C4 witness: after a Process for G with a non-empty partial batch, the staged
\* map of G still holds an index the batch did not contain.
C4_Witness ==
    /\ last_op.op = "Process"
    /\ last_op.exc = NoException
    /\ BatchIndexes(last_op.items) # {}
    /\ \E i \in DOMAIN gv_index_value_nested_dict[last_op.gv] :
           i \notin BatchIndexes(last_op.items)

\* A read through gv_ts_ind_val_dict has just returned.
JustRead == last_op.op = "gv_ts_ind_val_dict"

\* C5: with the threshold of 10 seconds, a read made strictly before T + 10,
\* where T is the time of the last observe of G, returns G's entry (stamped T,
\* with G's staged map), and a read made strictly after T + 10 returns no entry
\* for G.
C5_StalenessOnRead ==
    JustRead =>
        \A G \in DOMAIN observed_at :
            LET T == observed_at[G]
            IN  /\ now < T + 10 =>
                       /\ Staged(G)
                       /\ gv_ts_ind_val_dict[G].time = T
                       /\ gv_ts_ind_val_dict[G].map = gv_index_value_nested_dict[G]
                /\ now > T + 10 => ~Staged(G)

\* C5 witness: a read returned while one GroupVariation was last observed more
\* than 10 seconds ago (and is gone) and another less than 10 seconds ago (and
\* is returned).
C5_Witness ==
    /\ JustRead
    /\ \E G1, G2 \in DOMAIN observed_at :
           /\ now > observed_at[G1] + 10 /\ ~Staged(G1)
           /\ now < observed_at[G2] + 10 /\ Staged(G2)

HasRegistered(i) == apps[i].pc \in {"add_outstation_app", "constructed"}

\* C11: an instance is enabled only after its __init__ has written its registry
\* entry, so every enabled instance's identifier has an entry, and no Select or
\* Operate callback of an enabled outstation finds the registry without the
\* entry of its identifier.
C11_RegistrationPrecedesTraffic ==
    /\ \A i \in 1 .. Len(apps) :
           apps[i].enabled =>
               /\ HasRegistered(i)
               /\ apps[i].outstation_id \in DOMAIN outstation_application_pool
    /\ Called =>
           /\ LastRegistered
           /\ last.outcome # Raise("AttributeError", "NoneType has no process_point_value")

\* C11 witness: a callback of an enabled outstation was served while another
\* instance was still inside __init__, before its registration.
C11_Witness ==
    /\ Called
    /\ apps[last.handler].enabled
    /\ last.outcome = Return("SUCCESS")
    /\ \E i \in 1 .. Len(apps) :
           /\ apps[i].pc = "AddOutstation"
           /\ apps[i].outstation_id \notin DOMAIN outstation_application_pool

(***************************************************************************)
(* Routing (checked under Spec).                                           *)
(***************************************************************************)

\* The instances constructed so far have pairwise distinct identifiers.
DistinctIds ==
    \A i, j \in 1 .. Len(apps) :
        apps[i].outstation_id = apps[j].outstation_id => i = j

\* C12: with the instances registered under distinct identifiers, a Select or
\* Operate on the handler bound to one instance's identifier writes the
\* translated value into the database and the mirror of that instance, and
\* leaves the database and the mirror of every other instance unchanged.
C12_RoutingIsolation ==
    [][(last' # last /\ DistinctIds /\ last'.handler >= 1) =>
          LET h == last'.handler
              key == <<master_to_outstation_command_parser(last'.command).val.type,
                       last'.index>>
          IN  /\ \A i \in 1 .. Len(apps) : i # h => apps'[i] = apps[i]
              /\ last'.outcome = Return("SUCCESS") =>
                     /\ key \in DOMAIN apps'[h].db
                     /\ key \in DOMAIN apps'[h].mirror
                     /\ apps'[h].db[key] =
                            master_to_outstation_command_parser(last'.command).val.value
                     /\ apps'[h].mirror[key] = apps'[h].db[key]]_vars

\* C12 witness: two instances under distinct identifiers; the last call was
\* served on the handler of one of them and wrote a point that the other
\* instance, which holds a point of its own from an earlier call, does not have.
C12_Witness ==
    /\ Called
    /\ Len(apps) = 2
    /\ DistinctIds
    /\ last.handler >= 1
    /\ last.outcome = Return("SUCCESS")
    /\ \E i \in 1 .. Len(apps) :
           /\ i # last.handler
           /\ apps[i].db # NoPoints
           /\ apps[i].db # apps[last.handler].db
           /\ apps[i].mirror # apps[last.handler].mirror

(***************************************************************************)
(* Properties of to_master_command (checked under SpecToMaster) and of     *)
(* to_outstation_status on the analog kinds (checked under SpecTranslate). *)
(***************************************************************************)

\* to_master_command has been called on t_cmd.
Decided == t_out.tag # "pending"

\* What to_master_command returned or raised.
Built == IF t_out.tag = "round_trip" THEN Return(t_out.master_cmd) ELSE t_out

\* The magnitude of a number, in tenths.
magnitude(x) == IF x.ty = "int" THEN 10 * x.n ELSE x.tenths

\* The command carries the supplied value: the same magnitude, to the
\* precision of the command's kind.
Carries(master_cmd, val_to_set) ==
    magnitude(master_cmd.value) = magnitude(val_to_set)

\* C13: for group 40 and variation 1, 2, 3, 4 a numeric value builds an
\* AnalogOutputInt32, AnalogOutputInt16, AnalogOutputFloat32,
\* AnalogOutputDouble64 carrying the supplied value, and a value that is not
\* numeric fails with InvalidValueType and builds nothing.
C13_Group40 ==
    (Decided /\ t_cmd.group = 40 /\ t_cmd.variation \in 1 .. 4) =>
        IF type_of(t_cmd.val_to_set) \in {"int", "float"}
        THEN /\ Built.tag = "return"
             /\ Built.val.type = analog_output_class(t_cmd.variation)
             /\ Carries(Built.val, t_cmd.val_to_set)
        ELSE Built = InvalidValueType

\* C14: for group 10 and variation 1 or 2 a bool builds a
\* ControlRelayOutputBlock with rawCode 3 for True and 4 for False, and a
\* value that is not a bool fails with the invalid-value-type error.
C14_Group10 ==
    (Decided /\ t_cmd.group = 10 /\ t_cmd.variation \in {1, 2}) =>
        IF type_of(t_cmd.val_to_set) = "bool"
        THEN Built = Return([type |-> "ControlRelayOutputBlock",
                             rawCode |-> IF t_cmd.val_to_set.b THEN 3 ELSE 4])
        ELSE Built = InvalidValueType

\* C14 witness: to_master_command(10, 1, False) has built the block with
\* rawCode 4.
C14_Witness ==
    /\ t_cmd = [group |-> 10, variation |-> 1, val_to_set |-> PyBool(FALSE)]
    /\ t_out = Return([type |-> "ControlRelayOutputBlock", rawCode |-> 4])

\* The (group, variation) pairs to_master_command supports.
Supported == {<<40, 1>>, <<40, 2>>, <<40, 3>>, <<40, 4>>, <<10, 1>>, <<10, 2>>}

\* C15: for every (group, variation) that is not supported, whatever the
\* value, the call fails with UnsupportedCommandType, not with
\* InvalidValueType, and builds nothing.
C15_Unsupported ==
    (Decided /\ <<t_cmd.group, t_cmd.variation>> \notin Supported) =>
        Built = UnsupportedCommandType

\* C16: for a bool b and variation 1 or 2,
\* to_outstation_status(to_master_command(10, variation, b)) is a
\* BinaryOutputStatus holding b.
C16_BooleanRoundTrip ==
    (Decided /\ t_cmd.group = 10 /\ t_cmd.variation \in {1, 2}
             /\ type_of(t_cmd.val_to_set) = "bool") =>
        /\ t_out.tag \in {"return", "round_trip"}
        /\ t_out.tag = "round_trip" =>
               t_out.status = Return([type |-> "BinaryOutputStatus",
                                      value |-> t_cmd.val_to_set.b])

\* C16 witness: True went through to_master_command(10, 2, .) and back through
\* to_outstation_status and came out as BinaryOutputStatus(True).
C16_Witness ==
    /\ t_cmd = [group |-> 10, variation |-> 2, val_to_set |-> PyBool(TRUE)]
    /\ t_out.tag = "round_trip"
    /\ t_out.status = Return([type |-> "BinaryOutputStatus", value |-> TRUE])

\* to_outstation_status has been called on t_cmd.
Translated == t_out.tag \in {"return", "raise"}

\* C17: for each of the four analog output classes to_outstation_status returns
\* an AnalogOutputStatus whose value equals the command's value, and an object
\* that is neither of these four nor a ControlRelayOutputBlock fails with an
\* error.
C17_AnalogVerbatim ==
    Translated =>
        /\ t_cmd.type \in AnalogOutputTypes =>
               /\ t_out.tag = "return"
               /\ t_out.val.type = "AnalogOutputStatus"
               /\ t_out.val.value.ty = "float"
               /\ magnitude(t_out.val.value) = magnitude(t_cmd.value)
               /\ ("single" \in DOMAIN t_out.val.value) = ("single" \in DOMAIN t_cmd.value)
        /\ t_cmd.type \notin MasterCmdTypes => t_out.tag = "raise"

\* C17 witness: a 16-bit analog output holding 7 was translated to an
\* AnalogOutputStatus holding 7.0.
C17_Witness ==
    /\ t_cmd = [type |-> "AnalogOutputInt16", value |-> PyInt(7)]
    /\ t_out = Return([type |-> "AnalogOutputStatus", value |-> PyFloat(70)])

(***************************************************************************)
(* Properties of the value visitor dispatch (checked under SpecDispatch).  *)
(***************************************************************************)

\* The dispatch has produced visitor.index_and_value.
Dispatched == last_op.op = "dispatch"

\* Every emitted value is of the given Python type.
EmitsType(ty) ==
    \A k \in DOMAIN last_op.visitor_ind_val : last_op.visitor_ind_val[k][2].ty = ty

\* C18: for an analog collection under a header among 30.1-30.4 and 32.1-32.4
\* the dispatch emits integers, and under any other header it emits doubles,
\* for the same delivered values.
C18_AnalogSubKind ==
    (Dispatched /\ last_op.values.type = "ICollectionIndexedAnalog") =>
        IF last_op.gv \in {"Group30Var1", "Group30Var2", "Group30Var3", "Group30Var4",
                           "Group32Var1", "Group32Var2", "Group32Var3", "Group32Var4"}
        THEN EmitsType("int")
        ELSE EmitsType("float")

\* C19: for an analog output status collection under a header among 40.1,
\* 40.2 and 42.1-42.4 the dispatch of station_utils.py emits integers, and
\* under every other analog output status header it emits doubles.
C19_AnalogOutputStatusSubKind ==
    (Dispatched /\ last_op.handler = "station_utils"
                /\ last_op.values.type = "ICollectionIndexedAnalogOutputStatus") =>
        IF last_op.gv \in {"Group40Var1", "Group40Var2", "Group42Var1",
                           "Group42Var2", "Group42Var3", "Group42Var4"}
        THEN EmitsType("int")
        ELSE EmitsType("float")

\* C19 witness: an analog output status collection under 42.4 holding 10.5 at
\* index 0 was dispatched by station_utils.py and 10 was emitted.
C19_Witness ==
    /\ Dispatched
    /\ last_op.handler = "station_utils"
    /\ last_op.gv = "Group42Var4"
    /\ last_op.values.items = << <<0, PyFloat(105)>> >>
    /\ last_op.visitor_ind_val = << <<0, PyInt(10)>> >>

\* C20: the dispatch emits the (index, value) pairs in ascending index order,
\* whatever the order Foreach delivered them in.
C20_AscendingIndexOrder ==
    Dispatched =>
        \A j, k \in DOMAIN last_op.visitor_ind_val :
            j < k => last_op.visitor_ind_val[j][1] <= last_op.visitor_ind_val[k][1]

(***************************************************************************)
(* Unknown collection types (checked under SpecStation).                   *)
(***************************************************************************)

\* C21: a Process call with a collection whose type is none of the 8 keys of
\* visitor_class_types fails with the KeyError of the lookup, and the value
\* maps, the timestamped entries and the last poll times are exactly as they
\* were before the call.
C21_UnknownValueKind ==
    [][(last_op'.op = "Process" /\ last_op'.type \notin DOMAIN visitor_class_types) =>
          /\ last_op'.exc = Raise("KeyError", last_op'.type)
          /\ gv_index_value_nested_dict' = gv_index_value_nested_dict
          /\ gv_ts_ind_val_dict' = gv_ts_ind_val_dict
          /\ gv_last_poll_dict' = gv_last_poll_dict]_vars

\* C21 witness: with an entry staged, a Process call with a collection of an
\* unknown type has raised KeyError.
C21_Witness ==
    /\ last_op.op = "Process"
    /\ last_op.type = UnknownCollectionType
    /\ last_op.exc.tag = "raise"
    /\ last_op.exc.exc = "KeyError"
    /\ DOMAIN gv_ts_ind_val_dict # {}
    /\ DOMAIN gv_last_poll_dict # {}

(***************************************************************************)
(* Select and Operate (checked under Spec).                                *)
(***************************************************************************)

\* C22: in every state, for every handler, command and index, Operate with any
\* operate type does what Select does: the same updates of the same instance's
\* database and mirror (or none), and the same status or the same raised
\* error; the operate type changes neither the translation nor the value.
C22_SelectOperateEquivalent ==
    \A h \in Handlers, command \in RouterCmds, index \in PointIndexes,
       op_type \in OperateTypes :
        LET select == Select(outstation_application_pool, handler_outstation_id(h),
                             command, index)
            operate == Operate(outstation_application_pool, handler_outstation_id(h),
                               command, index, op_type)
        IN  /\ operate.effects = select.effects
            /\ operate.outcome = select.outcome

\* C22 witness: an Operate on the handler of a registered instance has applied
\* the translated value and returned SUCCESS, as Select does on the same
\* handler, command and index.
C22_Witness ==
    /\ Called
    /\ last.op = "Operate"
    /\ last.op_type = "SelectBeforeOperate"
    /\ LastRegistered
    /\ last.outcome = Return("SUCCESS")
    /\ Len(last.effects) = 2
    /\ Select(outstation_application_pool, handler_outstation_id(last.handler),
              last.command, last.index).effects = last.effects

(***************************************************************************)
(* Properties of the staging cache under concurrent calls                  *)
(***************************************************************************)

Quiescent == \A th \in Threads : Callable(th)

Evicts(th) == threads[th].pc = "pop_ts" /\ threads'[th].pc = "pop_nested"

\* C23: observe and read behave as mutually exclusive: no sweep removes an
\* entry whose last_update is within the threshold at the moment of removal,
\* and once no call is in progress the two internal maps hold the same
\* GroupVariations.
C23_MutuallyExclusive ==
    /\ [][\A th \in Threads :
             Evicts(th) =>
                 is_stale(gv_ts_ind_val_dict[threads[th].gv].time, now,
                          stale_if_longer_than_in_sec)]_vars
    /\ [](Quiescent =>
             DOMAIN gv_ts_ind_val_dict = DOMAIN gv_index_value_nested_dict)

\* C24: no eviction sweep ends by raising.
C24_SweepNeverRaises ==
    \A th \in Threads :
        (threads[th].pc = "done" /\ threads[th].task = "_update_stale_db") =>
            threads[th].exc = NoException

Observed(th, gv) ==
    /\ threads[th].pc = "done" /\ threads[th].task = "_post_process"
    /\ threads[th].exc = NoException
    /\ threads[th].args.info_gv = gv

\* C28: while nothing is old enough to be evicted, two completed observes of
\* one GroupVariation with disjoint index sets leave the indices of both
\* batches in the staged map.
C28_NoLostUpdate ==
    \A gv \in ConcurrentGroupVariations :
        (/\ now < stale_if_longer_than_in_sec
         /\ \A th \in Threads : Observed(th, gv)
         /\ \A a, b \in Threads :
                a # b => BatchIndexes(threads[a].args.visitor_ind_val)
                           \cap BatchIndexes(threads[b].args.visitor_ind_val) = {})
        => /\ gv \in DOMAIN gv_index_value_nested_dict
           /\ \A th \in Threads :
                  BatchIndexes(threads[th].args.visitor_ind_val)
                      \subseteq DOMAIN gv_index_value_nested_dict[gv]

(***************************************************************************)
(* Properties of the apply path                                            *)
(***************************************************************************)

\* C25: process_point_value(command, index) has exactly the effect of
\* apply_update on the translated command at the same index (and of nothing
\* when the translation raises), and apply_update writes the engine's
\* database first and the instance's mirror second, both with the
\* measurement's value at the given index.
C25_OneApplyPath ==
    [][/\ (last' # last /\ last'.op = "process_point_value") =>
             LET outstation_cmd == master_to_outstation_command_parser(last'.command)
             IN  IF outstation_cmd.tag = "raise"
                 THEN apps' = apps /\ last'.exc = outstation_cmd
                 ELSE LET r == apply_update(last'.app, outstation_cmd.val, last'.index)
                      IN  /\ last'.effects = r.effects
                          /\ last'.exc = r.exc
                          /\ apps' = ApplyEffects(apps, r.effects)
       /\ (last' # last /\ last'.op = "apply_update") =>
             LET m == last'.measurement
                 at == <<m.type, last'.index>>
             IN  /\ Len(last'.effects) = 2
                 /\ last'.effects[1].eff = "Apply"
                 /\ last'.effects[2].eff = "db_handler.process"
                 /\ \A k \in 1 .. 2 :
                        /\ last'.effects[k].app = last'.app
                        /\ last'.effects[k].value = m.value
                        /\ last'.effects[k].index = last'.index
                        /\ last'.effects[k].type = m.type
                 /\ apps'[last'.app].db = Apply(apps[last'.app].db, last'.effects[1])
                 /\ apps'[last'.app].mirror =
                        DBHandler_process(apps[last'.app].mirror, last'.effects[2])
                 /\ apps'[last'.app].db[at] = m.value
                 /\ apps'[last'.app].mirror[at] = m.value]_vars

\* C25 witness: both entry points were used: an analog output command went
\* through process_point_value after an injection by apply_update, and the
\* instance's database and mirror hold the translated value at the index.
C25_Witness ==
    /\ last.op = "process_point_value"
    /\ last.n = 2
    /\ last.command.type = "AnalogOutputInt32"
    /\ last.exc = NoException
    /\ Len(last.effects) = 2
    /\ apps[last.app].db[<<"AnalogOutputStatus", last.index>>] = double(PyInt(7))
    /\ apps[last.app].mirror[<<"AnalogOutputStatus", last.index>>] = double(PyInt(7))
    /\ \E k \in DOMAIN apps[last.app].db : k[1] \in {"Analog", "Binary", "BinaryOutputStatus"}

(***************************************************************************)
(* Properties of the eviction sweep and of last_update                     *)
(***************************************************************************)

\* The age of G's entry at the present time.
Age(G) == now - gv_ts_ind_val_dict[G].time

C27_ObserveRefreshes ==
    /\ [][/\ (last_op'.op = "Process" /\ last_op'.exc = NoException) =>
                /\ last_op'.gv \in DOMAIN gv_ts_ind_val_dict'
                /\ last_op'.gv \in DOMAIN gv_index_value_nested_dict'
                /\ gv_ts_ind_val_dict'[last_op'.gv].time = now'
          /\ \A G \in DOMAIN gv_ts_ind_val_dict \cap DOMAIN gv_ts_ind_val_dict' :
                gv_ts_ind_val_dict'[G].time >= gv_ts_ind_val_dict[G].time]_vars
    /\ [](\A G \in DOMAIN observed_at :
              now - observed_at[G] < stale_if_longer_than_in_sec =>
                  /\ Staged(G)
                  /\ gv_ts_ind_val_dict[G].time = observed_at[G])

\* C27 witness: an observe with an empty batch was made later than time 0 for a
\* GroupVariation that had no entry: the entry exists, is empty and is stamped
\* now, while the other GroupVariation's earlier stamp is unchanged.
C27_Witness ==
    /\ last_op.op = "Process"
    /\ last_op.exc = NoException
    /\ last_op.items = <<>>
    /\ now > 0
    /\ gv_index_value_nested_dict[last_op.gv] = EmptyDict
    /\ gv_ts_ind_val_dict[last_op.gv].time = now
    /\ \E G \in DOMAIN gv_ts_ind_val_dict : gv_ts_ind_val_dict[G].time < now

(***************************************************************************)
(* Properties of the outstation identifier                                 *)
(***************************************************************************)

\* C29: the identifier of an instance is ip + "-" + port of its construction
\* and is bound to the instance's command handler from the start; the
\* registering statement of the construction stores the instance under that
\* identifier; and no later step, whether the rest of the construction, a
\* start, a shutdown, a command or another construction, changes the
\* identifier of an instance or of its handler.
C29_IdentifierFixed ==
    [][/\ Len(apps') >= Len(apps)
       /\ \A i \in 1 .. Len(apps) :
              /\ apps'[i].outstation_id = apps[i].outstation_id
              /\ apps'[i].command_handler.outstation_id = apps[i].outstation_id
       /\ Len(apps') > Len(apps) =>
              LET self == Len(apps')
                  id == apps'[self].outstation_id
              IN  /\ \E ep \in Endpoints : id = ep[1] \o "-" \o ToString(ep[2])
                  /\ apps'[self].command_handler.outstation_id = id
       /\ \A i \in 1 .. Len(apps') :
              (/\ i > Len(apps) \/ apps[i].pc = "AddOutstation"
               /\ apps'[i].pc \in {"add_outstation_app", "constructed"}) =>
                  /\ apps'[i].outstation_id \in DOMAIN outstation_application_pool'
                  /\ outstation_application_pool'[apps'[i].outstation_id] = i]_vars

\* C29 witness: an instance built for 127.0.0.1 and port 20000 was started,
\* served a command and was shut down, a second instance was built after it,
\* and the first still carries the identifier "127.0.0.1-20000", as does its
\* handler.
C29_Witness ==
    /\ Len(apps) = 2
    /\ apps[1].enabled /\ apps[1].shut
    /\ apps[2].pc = "constructed"
    /\ Called /\ last.handler = 1 /\ last.outcome = Return("SUCCESS")
    /\ apps[1].outstation_id = "127.0.0.1-20000"
    /\ handler_outstation_id(1) = "127.0.0.1-20000"
    /\ apps[2].outstation_id = "0.0.0.0-20001"
    /\ outstation_application_pool["127.0.0.1-20000"] = 1

(***************************************************************************)
(* Properties of parsing_gvid_to_gvcls                                     *)
(***************************************************************************)

\* C30: for every GroupVariationID (g, v) that names a member of
\* GroupVariation, parsing_gvid_to_gvcls returns the member Group<g>Var<v>.
C30_SameGroupVariation ==
    (Decided /\ GroupVarName(t_cmd.group, t_cmd.variation) \in GroupVariationMembers) =>
        t_out.result = Return(GroupVarName(t_cmd.group, t_cmd.variation))

(***************************************************************************)
(* Frame of observe                                                        *)
(***************************************************************************)

\* C31: an observe for G changes nothing of any other GroupVariation: every
\* other entry of the plain dict, of the timestamped dict and of the last-poll
\* dict is present afterwards exactly when it was present before, with the
\* same map and the same times, however old it is; and G's own entry is not
\* removed either.
C31_ObserveFrame ==
    [][last_op'.op = "Process" =>
          /\ DOMAIN gv_index_value_nested_dict \subseteq DOMAIN gv_index_value_nested_dict'
          /\ DOMAIN gv_ts_ind_val_dict \subseteq DOMAIN gv_ts_ind_val_dict'
          /\ DOMAIN gv_last_poll_dict \subseteq DOMAIN gv_last_poll_dict'
          /\ \A G \in GroupVariations \ {last_op'.gv} :
                /\ G \in DOMAIN gv_index_value_nested_dict' =>
                       /\ G \in DOMAIN gv_index_value_nested_dict
                       /\ gv_index_value_nested_dict'[G] = gv_index_value_nested_dict[G]
                /\ G \in DOMAIN gv_ts_ind_val_dict' =>
                       /\ G \in DOMAIN gv_ts_ind_val_dict
                       /\ gv_ts_ind_val_dict'[G] = gv_ts_ind_val_dict[G]
                /\ G \in DOMAIN gv_last_poll_dict' =>
                       /\ G \in DOMAIN gv_last_poll_dict
                       /\ gv_last_poll_dict'[G] = gv_last_poll_dict[G]]_vars

\* C31 witness: an observe for G has completed while the entry of another
\* GroupVariation, a threshold or more old, is still in both dicts.
C31_Witness ==
    /\ last_op.op = "Process"
    /\ last_op.exc = NoException
    /\ gv_ts_ind_val_dict[last_op.gv].time = now
    /\ \E G \in DOMAIN gv_ts_ind_val_dict \ {last_op.gv} :
           /\ now - gv_ts_ind_val_dict[G].time >= stale_if_longer_than_in_sec
           /\ G \in DOMAIN gv_index_value_nested_dict
           /\ gv_index_value_nested_dict[G] # EmptyDict

(***************************************************************************)
(* Observing again after an eviction                                       *)
(***************************************************************************)

\* C32: an observe for a GroupVariation that was observed before and whose
\* entry has been evicted since stages exactly the new batch: the indices of
\* the staged map are those of the batch, each with the batch's value, and
\* nothing of the evicted map is in it.
C32_EvictionIsComplete ==
    [][(last_op'.op = "Process" /\ last_op'.exc = NoException /\ last_op'.evicted) =>
          LET G == last_op'.gv
              items == last_op'.items
          IN  /\ DOMAIN gv_index_value_nested_dict'[G] = BatchIndexes(items)
              /\ \A i \in BatchIndexes(items) :
                     gv_index_value_nested_dict'[G][i] = BatchValue(items, i)
              /\ gv_ts_ind_val_dict'[G].map = gv_index_value_nested_dict'[G]]_vars

\* C32 witness: an analog GroupVariation whose entry had been evicted was
\* observed again with a batch for index 1 alone, and index 1 is all its
\* staged map holds.
C32_Witness ==
    /\ last_op.op = "Process"
    /\ last_op.exc = NoException
    /\ last_op.evicted
    /\ BatchIndexes(last_op.items) = {1}
    /\ DOMAIN gv_index_value_nested_dict[last_op.gv] = {1}
    /\ now >= stale_if_longer_than_in_sec

(***************************************************************************)
(* Which accessor evicts                                                   *)
(***************************************************************************)

\* C33: a read through gv_index_value_nested_dict changes neither dict,
\* whatever the age of the entries, and a step that removes an entry from
\* either dict is a read through gv_ts_ind_val_dict.
C33_OnlySnapshotAccessorEvicts ==
    [][/\ last_op'.op = "gv_index_value_nested_dict" =>
              /\ gv_index_value_nested_dict' = gv_index_value_nested_dict
              /\ gv_ts_ind_val_dict' = gv_ts_ind_val_dict
       /\ (\/ ~(DOMAIN gv_index_value_nested_dict \subseteq DOMAIN gv_index_value_nested_dict')
           \/ ~(DOMAIN gv_ts_ind_val_dict \subseteq DOMAIN gv_ts_ind_val_dict')) =>
              last_op'.op = "gv_ts_ind_val_dict"]_vars

\* C33 witness: a read through gv_index_value_nested_dict has returned a dict
\* that holds an entry older than the threshold, with its values.
C33_Witness ==
    /\ last_op.op = "gv_index_value_nested_dict"
    /\ \E G \in DOMAIN gv_index_value_nested_dict :
           /\ gv_index_value_nested_dict[G] # EmptyDict
           /\ G \in DOMAIN gv_ts_ind_val_dict
           /\ now - gv_ts_ind_val_dict[G].time > stale_if_longer_than_in_sec

(***************************************************************************)
(* Registering twice under one identifier                                  *)
(***************************************************************************)

\* C34: the registry holds one instance per identifier, the one registered
\* last: a construction under identifier X makes the new instance the lookup
\* result of X and changes the lookup result of no other identifier; and a
\* successful Select or Operate on the handler of any instance, the first of
\* two built under one identifier included, writes the database and the mirror
\* of the instance registered last under the handler's identifier, and of no
\* other instance.
C34_LastRegistrationWins ==
    [][/\ Len(apps') > Len(apps) =>
              LET self == Len(apps')
                  X == apps'[self].outstation_id
              IN  /\ get_outstation_app(outstation_application_pool', X) = self
                  /\ \A id \in (OutstationIds \cup {""}) \ {X} :
                         get_outstation_app(outstation_application_pool', id) =
                             get_outstation_app(outstation_application_pool, id)
       /\ (last' # last /\ last'.handler >= 1 /\ last'.outcome = Return("SUCCESS")) =>
              LET owner == Latest(RegisteredAs(apps[last'.handler].outstation_id))
                  status == master_to_outstation_command_parser(last'.command).val
                  key == <<status.type, last'.index>>
              IN  /\ key \in DOMAIN apps'[owner].db
                  /\ apps'[owner].db[key] = status.value
                  /\ key \in DOMAIN apps'[owner].mirror
                  /\ apps'[owner].mirror[key] = status.value
                  /\ \A i \in 1 .. Len(apps) : i # owner => apps'[i] = apps[i]]_vars

\* C34 witness: two instances were built under one identifier and a command on
\* the handler of the first succeeded; the point is in the second instance's
\* database and mirror, and the first instance holds no point.
C34_Witness ==
    /\ Len(apps) = 2
    /\ apps[1].outstation_id = apps[2].outstation_id
    /\ Called
    /\ last.handler = 1
    /\ last.outcome = Return("SUCCESS")
    /\ apps[1].db = NoPoints /\ apps[1].mirror = NoPoints
    /\ apps[2].db # NoPoints /\ apps[2].mirror = apps[2].db

(***************************************************************************)
(* The two dicts of the staging cache                                      *)
(***************************************************************************)

\* C35: called sequentially, the handler keeps its two dicts in step: they
\* hold the same GroupVariations, and the map stored with the time in the
\* timestamped dict is the map of the plain dict, after merges too.
C35_StoresAgree ==
    /\ DOMAIN gv_ts_ind_val_dict = DOMAIN gv_index_value_nested_dict
    /\ \A G \in DOMAIN gv_ts_ind_val_dict :
           gv_ts_ind_val_dict[G].map = gv_index_value_nested_dict[G]

\* C35 witness: a read has evicted one GroupVariation from both dicts while
\* the other, whose map was merged from two batches, is in both with that map.
C35_Witness ==
    /\ JustRead
    /\ \E G1, G2 \in DOMAIN observed_at :
           /\ G1 \notin DOMAIN gv_ts_ind_val_dict
           /\ G1 \notin DOMAIN gv_index_value_nested_dict
           /\ G2 \in DOMAIN gv_ts_ind_val_dict
           /\ DOMAIN gv_index_value_nested_dict[G2] = {0, 1}
           /\ gv_ts_ind_val_dict[G2].map = gv_index_value_nested_dict[G2]

(***************************************************************************)
(* The value-type check of group 40                                        *)
(***************************************************************************)

\* C36: for group 40, a value that is neither an int nor a float, a bool
\* included, fails with InvalidValueType whatever the variation, supported or
\* not: the type of the value is checked before the variation is looked at.
C36_Group40TypeCheckFirst ==
    (Decided /\ t_cmd.group = 40 /\ type_of(t_cmd.val_to_set) \notin {"int", "float"}) =>
        t_out = InvalidValueType

\* C36 witness: to_master_command was called for group 40 with a variation it
\* does not support and the value True, and raised InvalidValueType.
C36_Witness ==
    /\ Decided
    /\ t_cmd.group = 40
    /\ t_cmd.variation \notin 1 .. 4
    /\ t_cmd.val_to_set = PyBool(TRUE)
    /\ t_out = InvalidValueType

====
